---------------------------- MODULE Spec2Model ----------------------------
(***************************************************************************)
(* RHINO coregistration (osl/source_recon/rhino/rhino.py, coreg).          *)
(*                                                                         *)
(* One coreg call is a job: a sequential process whose position pc[j]      *)
(* walks through the statements of coreg.  Jobs share one file system fs.  *)
(* Point clouds are sequences of integer 3-vectors (the columns of the     *)
(* 3xN arrays of the code), transforms are 4x4 integer matrices whose     *)
(* bottom row is (0,0,0,1).                                                *)
(*                                                                         *)
(* rhino_utils (xform_points, rigid_transform_3D, rhino_icp, ...) is not   *)
(* part of the sources at hand; its operators are modelled from the        *)
(* design document (sections 4.1 - 4.3).                                   *)
(***************************************************************************)
EXTENDS Integers, Sequences, FiniteSets, TLC

(***************************************************************************)
(* Linear algebra on integer matrices.                                     *)
(***************************************************************************)

\* np.eye(4)
Eye4 == << <<1, 0, 0, 0>>, <<0, 1, 0, 0>>, <<0, 0, 1, 0>>, <<0, 0, 0, 1>> >>

\* A @ B for 4x4 matrices
MatMul(A, B) ==
    LET e(i, k) == A[i][1] * B[1][k] + A[i][2] * B[2][k]
                   + A[i][3] * B[3][k] + A[i][4] * B[4][k]
        row(i) == << e(i, 1), e(i, 2), e(i, 3), e(i, 4) >>
    IN  << row(1), row(2), row(3), row(4) >>

\* determinant of the upper-left 3x3 block
Det3(M) ==
      M[1][1] * (M[2][2] * M[3][3] - M[2][3] * M[3][2])
    - M[1][2] * (M[2][1] * M[3][3] - M[2][3] * M[3][1])
    + M[1][3] * (M[2][1] * M[3][2] - M[2][2] * M[3][1])

\* np.linalg.inv raises LinAlgError on a singular matrix
Singular(M) == Det3(M) = 0

\* an inverse that transposes the rotation block and negates the translation
\* without rotating it back
MatInvNegatedTranslation(M) ==
    << <<M[1][1], M[2][1], M[3][1], 0 - M[1][4]>>,
       <<M[1][2], M[2][2], M[3][2], 0 - M[2][4]>>,
       <<M[1][3], M[2][3], M[3][3], 0 - M[3][4]>>,
       <<0, 0, 0, 1>> >>

\* np.linalg.inv(M) for an affine matrix (bottom row 0 0 0 1): the inverse of
\* the 3x3 block by its adjugate, and the translation -A^-1 t.  Exact on the
\* matrices of the model, whose 3x3 block has determinant +1 or -1.
MatInv(M) ==
    LET d == Det3(M)
        c(i, k) ==   \* cofactor of entry (i, k), indices mod 3
            LET i1 == (i % 3) + 1
                i2 == ((i + 1) % 3) + 1
                k1 == (k % 3) + 1
                k2 == ((k + 1) % 3) + 1
            IN  M[i1][k1] * M[i2][k2] - M[i1][k2] * M[i2][k1]
        a(i, k) == c(k, i) \div d          \* adjugate / det
        t(i) == 0 - (a(i, 1) * M[1][4] + a(i, 2) * M[2][4] + a(i, 3) * M[3][4])
        row(i) == << a(i, 1), a(i, 2), a(i, 3), t(i) >>
    IN  << row(1), row(2), row(3), <<0, 0, 0, 1>> >>

\* a pure translation
Translation(x, y, z) ==
    << <<1, 0, 0, x>>, <<0, 1, 0, y>>, <<0, 0, 1, z>>, <<0, 0, 0, 1>> >>

\* rotation by 90 degrees about the z axis, then a translation
RotZ(x, y, z) ==
    << <<0, -1, 0, x>>, <<1, 0, 0, y>>, <<0, 0, 1, z>>, <<0, 0, 0, 1>> >>

\* rotation by 90 degrees about the x axis, then a translation
RotX(x, y, z) ==
    << <<1, 0, 0, x>>, <<0, 0, -1, y>>, <<0, 1, 0, z>>, <<0, 0, 0, 1>> >>

\* rhino_utils.xform_points on one point (one column of a 3xN array)
XformPoint(M, p) ==
    << M[1][1] * p[1] + M[1][2] * p[2] + M[1][3] * p[3] + M[1][4],
       M[2][1] * p[1] + M[2][2] * p[2] + M[2][3] * p[3] + M[2][4],
       M[3][1] * p[1] + M[3][2] * p[2] + M[3][3] * p[3] + M[3][4] >>

\* rhino_utils.xform_points on a cloud: point count and order are kept
XformPoints(M, pts) == [i \in 1..Len(pts) |-> XformPoint(M, pts[i])]


(***************************************************************************)
(* Bounds of the model.                                                    *)
(***************************************************************************)

\* number of initialisations of the multi-start ICP
NumInits == 2

\* the improvement tolerance of ICP, in the integer error unit of the model
Tol == 1

\* the third argument of rhino_icp in coreg
MaxIterations == 30

Max(a, b) == IF a >= b THEN a ELSE b

(***************************************************************************)
(* Files.  A path is <<subject, area, key>>: area "coreg" is               *)
(* subjects_dir/subject/rhino/coreg, area "surfaces" the directory of      *)
(* get_surfaces_filenames, area "caller" the place of the caller's fif.    *)
(***************************************************************************)

Subjects == {"s1", "s2"}

\* the keys of get_coreg_filenames that coreg uses
CoregKeys ==
    { "fif_file", "head_mri_t_file", "mrivoxel_mri_t_file",
      "smri_nasion_file", "smri_rpa_file", "smri_lpa_file",
      "polhemus_nasion_file", "polhemus_rpa_file", "polhemus_lpa_file",
      "polhemus_headshape_file" }

\* the keys of get_surfaces_filenames that coreg uses
SurfacesKeys ==
    { "bet_outskin_plus_nose_mesh_file", "bet_outskin_mesh_file",
      "mni_mri_t_file",
      "bet_inskull_mesh_vtk_file", "bet_inskull_surf_file", "bet_inskull_mesh_file",
      "bet_outskull_mesh_vtk_file", "bet_outskull_surf_file", "bet_outskull_mesh_file",
      "bet_outskin_mesh_vtk_file", "bet_outskin_surf_file" }

\* names of the caller's fif file: the code looks at the suffix only
CallerFifNames == { "x-raw.fif", "x-epochs.fif", "x-ave.fif" }

Paths ==
    { <<s, "coreg", k>> : s \in Subjects, k \in CoregKeys }
    \cup { <<s, "surfaces", k>> : s \in Subjects, k \in SurfacesKeys }
    \cup { <<s, "caller", n>> : s \in Subjects, n \in CallerFifNames }

\* the file names do not depend on the subject
SharedCoregFilenames(subject, key) == <<"s1", "coreg", key>>

\* filenames[key] of get_coreg_filenames(subjects_dir, subject)
get_coreg_filenames(subject, key) == <<subject, "coreg", key>>

\* surfaces_filenames[key] of get_surfaces_filenames(subjects_dir, subject)
get_surfaces_filenames(subject, key) == <<subject, "surfaces", key>>

\* file contents
Absent == [kind |-> "absent"]
TxtFile(a) == [kind |-> "txt", arr |-> a]
NiiFile(vox, sform) == [kind |-> "nii", vox |-> vox, sform |-> sform]
TransFile(fro, to, m) == [kind |-> "trans", fro |-> fro, to |-> to, trans |-> m]
FifFile(dht, dct) == [kind |-> "fif", dev_head_t |-> dht, dev_ctf_t |-> dct]
VtkFile(id) == [kind |-> "vtk", id |-> id]
SurfFile(vtk, nii, m) == [kind |-> "surf", vtk |-> vtk, nii |-> nii, xform |-> m]

\* info["dev_ctf_t"] of a recording that is not from a CTF scanner
None == << >>

(***************************************************************************)
(* np.loadtxt and the arrays of the code.  An array is [ndim, cols]: cols  *)
(* are its columns (points) when ndim = 2; a file of one column loads as a *)
(* 1-d array of 3 numbers, an empty file as a 1-d array of 0 numbers.      *)
(***************************************************************************)

Array2(cols) == [ndim |-> 2, cols |-> cols]

\* every file loads as a 2-d array (ndmin=2), an empty one included
LoadTxtNdmin2(pts) == Array2(pts)

\* np.loadtxt on a text file that holds the columns pts
LoadTxt(pts) ==
    IF Len(pts) >= 2 THEN Array2(pts) ELSE [ndim |-> 1, cols |-> pts]

\* np.reshape(x, [-1, 1]) of a loaded fiducial: one column
ReshapeColumn(a) == a.cols[1]

\* np.concatenate((a, b), axis=1) raises ValueError unless both are 2-d
ConcatFails(a, b) == a.ndim # 2 \/ b.ndim # 2

\* a concatenation that leaves the second array out
ConcatFirstOnly(a, b) == Array2(a.cols)

\* np.concatenate((a, b), axis=1)
Concat(a, b) == Array2(a.cols \o b.cols)


(***************************************************************************)
(* Rigid alignment (rhino_utils.rigid_transform_3D, design section 4.2).   *)
(* Rotations range over the 24 proper rotations of the integer lattice.    *)
(***************************************************************************)

Perms3 == { p \in [1..3 -> 1..3] : \A i, k \in 1..3 : i # k => p[i] # p[k] }

Signs3 == [1..3 -> {-1, 1}]

\* the signed permutation matrix of p and s, as an affine 4x4 matrix
SignedPerm(p, s) ==
    LET e(i, k) == IF p[i] = k THEN s[i] ELSE 0
        row(i) == << e(i, 1), e(i, 2), e(i, 3), 0 >>
    IN  << row(1), row(2), row(3), <<0, 0, 0, 1>> >>

\* the rotation candidates with the improper ones (reflections) left in
RotationsAndReflections == { SignedPerm(p, s) : p \in Perms3, s \in Signs3 }

\* rotation matrices: orthonormal, determinant +1
Rotations ==
    { R \in { SignedPerm(p, s) : p \in Perms3, s \in Signs3 } : Det3(R) = 1 }

RECURSIVE SumPoints(_)
SumPoints(pts) ==
    IF pts = << >> THEN <<0, 0, 0>>
    ELSE LET h == Head(pts)
             r == SumPoints(Tail(pts))
         IN  << h[1] + r[1], h[2] + r[2], h[3] + r[3] >>

SqNorm(v) == v[1] * v[1] + v[2] * v[2] + v[3] * v[3]

Sub(u, v) == << u[1] - v[1], u[2] - v[2], u[3] - v[3] >>

Scale(n, v) == << n * v[1], n * v[2], n * v[3] >>

RECURSIVE SumOver(_, _, _)
\* sum of f[i] for i in lo..hi
SumOver(f, lo, hi) == IF lo > hi THEN 0 ELSE f[lo] + SumOver(f, lo + 1, hi)

\* the sum of squared distances between the centred target points A and the
\* rotated centred source points B, scaled by n^2 (n = number of points)
CenteredCost(R, A, B) ==
    LET n == Len(A)
        sA == SumPoints(A)
        sB == SumPoints(B)
        d == [i \in 1..n |->
                SqNorm(Sub(Sub(Scale(n, A[i]), sA),
                           XformPoint(R, Sub(Scale(n, B[i]), sB))))]
    IN  SumOver(d, 1, n)

\* the rotation that minimises the centred cost
BestRotation(A, B) ==
    CHOOSE R \in Rotations :
        \A Q \in Rotations : CenteredCost(R, A, B) <= CenteredCost(Q, A, B)

\* fewer than 3 points in either set: the insufficient-data error
InsufficientData(A, B) == Len(A) < 3 \/ Len(B) < 3

\* rigid_transform_3D(A, B): the rotation and translation that map the points
\* B onto the points A; the translation is the offset of the centroids
rigid_transform_3D(A, B) ==
    LET n == Len(A)
        R == BestRotation(A, B)
        sA == SumPoints(A)
        rB == XformPoint(R, SumPoints(B))
    IN  << <<R[1][1], R[1][2], R[1][3], (sA[1] - rB[1]) \div n>>,
           <<R[2][1], R[2][2], R[2][3], (sA[2] - rB[2]) \div n>>,
           <<R[3][1], R[3][2], R[3][3], (sA[3] - rB[3]) \div n>>,
           <<0, 0, 0, 1>> >>

(***************************************************************************)
(* One ICP iteration on point clouds (design section 4.3, steps 1 - 3):    *)
(* nearest-neighbour correspondences, the rigid solver generalised to N    *)
(* correspondences, composition, error.  The error is the sum of squared   *)
(* point-to-nearest-point distances: N times the square of the RMS error,  *)
(* which orders the same way for a moving cloud of N points.               *)
(***************************************************************************)

SqDist(p, q) == SqNorm(Sub(p, q))

\* the correspondence search picks the farthest point
Farthest(fixed, p) ==
    CHOOSE i \in 1..Len(fixed) :
        \A k \in 1..Len(fixed) :
            \/ SqDist(fixed[i], p) > SqDist(fixed[k], p)
            \/ SqDist(fixed[i], p) = SqDist(fixed[k], p) /\ i <= k

\* the index of the nearest neighbour of p in the fixed cloud (exact search,
\* the first one among equally near points)
Nearest(fixed, p) ==
    CHOOSE i \in 1..Len(fixed) :
        \A k \in 1..Len(fixed) :
            \/ SqDist(fixed[i], p) < SqDist(fixed[k], p)
            \/ SqDist(fixed[i], p) = SqDist(fixed[k], p) /\ i <= k

\* step 1: for every point its nearest neighbour in the fixed cloud
Correspondences(fixed, pts) == [i \in 1..Len(pts) |-> fixed[Nearest(fixed, pts[i])]]

\* the sum of squared distances between the matched points of A and B
PairCost(A, B) == SumOver([i \in 1..Len(A) |-> SqDist(A[i], B[i])], 1, Len(A))

\* the error metric: squared point-to-nearest-point distances, summed
IcpError(fixed, pts) == PairCost(Correspondences(fixed, pts), pts)

\* the integer nearest to a / n, n > 0
RoundDiv(a, n) == (2 * a + n) \div (2 * n)

\* the rigid transform with rotation R whose translation brings the rotated
\* points B nearest to the points A: the offset of the centroids
FitWithRotation(R, A, B) ==
    LET n == Len(A)
        sA == SumPoints(A)
        rB == XformPoint(R, SumPoints(B))
    IN  << <<R[1][1], R[1][2], R[1][3], RoundDiv(sA[1] - rB[1], n)>>,
           <<R[2][1], R[2][2], R[2][3], RoundDiv(sA[2] - rB[2], n)>>,
           <<R[3][1], R[3][2], R[3][3], RoundDiv(sA[3] - rB[3], n)>>,
           <<0, 0, 0, 1>> >>

\* step 2: the general-point-set variant of the rigid solver: the rotation
\* and translation that minimise the sum of squared distances between the
\* transformed points B and the points A
rigid_transform_general(A, B) ==
    LET fits == { FitWithRotation(R, A, B) : R \in Rotations }
        costs == { << PairCost(A, XformPoints(X, B)), X >> : X \in fits }
        best == CHOOSE c \in costs : \A d \in costs : c[1] <= d[1]
    IN  best[2]

\* steps 1 - 3 from the running estimate T: the new running estimate
IcpRefineOnce(fixed, moving, T) ==
    LET q == XformPoints(T, moving)
        inc == rigid_transform_general(Correspondences(fixed, q), q)
    IN  MatMul(inc, T)

(***************************************************************************)
(* Known locations of the MNI derived fiducials, in MNI coordinates (mm).  *)
(***************************************************************************)

mni_nasion_mni == <<1, 85, -41>>
mni_rpa_mni == <<83, -20, -65>>
mni_lpa_mni == <<-83, -20, -65>>


(***************************************************************************)
(* The numerical kernel of ICP (design section 4.3).  One iteration        *)
(* (nearest-neighbour search, rigid re-alignment, error) is numerical      *)
(* code; what the model keeps of it is the error it reaches after each     *)
(* iteration and the incremental transform it composes.  Both are fixed by *)
(* the two clouds and the initial perturbation: a job's input names, for   *)
(* every perturbation, the convergence profile of its clouds.              *)
(***************************************************************************)

\* the random perturbations (rotation jitter) a seed sequence can draw
Perts == {0, 1}

\* the initial estimate of an initialisation: the jitter applied to the identity
Perturb(pert) == IF pert = 0 THEN RotZ(0, 0, 0) ELSE RotX(0, 0, 0)

\* error profiles: start error e0, decrease d per iteration, floor fl
ProfConv == [e0 |-> 5 * Tol, d |-> 2 * Tol, fl |-> Tol]
ProfFlat == [e0 |-> Tol, d |-> 0, fl |-> Tol]
ProfGood == [e0 |-> 3 * Tol, d |-> 2 * Tol, fl |-> 0]
ProfSlow == [e0 |-> (MaxIterations + 5) * Tol, d |-> Tol, fl |-> 0]

Kernels ==
    { [p \in Perts |-> IF p = 0 THEN ProfConv ELSE ProfFlat],
      [p \in Perts |-> IF p = 0 THEN ProfSlow ELSE ProfGood],
      [p \in Perts |-> IF p = 0 THEN ProfGood ELSE ProfSlow],
      [p \in Perts |-> ProfSlow] }

\* the RMS error after iteration number iter (0: before the first iteration)
KernelErr(prof, iter) == Max(prof.fl, prof.e0 - prof.d * iter)

\* the incremental transform of one iteration
KernelInc(pert) == IF pert = 0 THEN Translation(1, 0, 0) ELSE Translation(0, 1, 0)

\* the seed sequences: the perturbation of each initialisation
SeedSeqs == [1..NumInits -> Perts]

(***************************************************************************)
(* State.                                                                  *)
(***************************************************************************)

Jobs == {"a", "b"}

VARIABLES
    fs,       \* the file system: path -> content
    fs0,      \* the file system before any job started
    args,     \* args[j]: the arguments of job j's coreg call and its random seeds
    pc,       \* pc[j]: the statement job j is at
    loc,      \* loc[j]: the local variables of coreg
    icp,      \* icp[j]: the state of rhino_icp
    log,      \* log[j]: what the run has done so far
    outcome   \* outcome[j]: the exception that ended the run, if any

vars == << fs, fs0, args, pc, loc, icp, log, outcome >>

Unset == << >>

LocNames ==
    { "polhemus_headshape", "polhemus_nasion", "polhemus_rpa", "polhemus_lpa",
      "outskin_mesh_file", "smri_headshape_nativeindex", "raw", "fif_file",
      "smri_nasion_native", "smri_lpa_native", "smri_rpa_native",
      "polhemus_fid_polhemus", "smri_fid_native", "xform_native2polhemus",
      "xform_nativeindex2native", "smri_headshape_native",
      "smri_headshape_polhemus", "polhemus_headshape_4icp",
      "xform_icp", "err", "e", "xform_native2polhemus_refined",
      "smri_nasion_polhemus", "smri_rpa_polhemus", "smri_lpa_polhemus",
      "head_mri_t", "mrivoxel_mri_t" }

Loc0 == [n \in LocNames |-> Unset]

Icp0 == [fixed |-> Unset, moving |-> Unset, k |-> 0, pert |-> 0, iter |-> 0,
         T |-> Eye4, err |-> 0, history |-> << >>, stop |-> "",
         best |-> Unset, runs |-> << >>]

Log0 == [steps |-> << >>, writes |-> << >>, icp_calls |-> 0]

NoError == [kind |-> "", at |-> "", path |-> Unset]

(***************************************************************************)
(* Inputs.                                                                 *)
(***************************************************************************)

MniFids == << mni_nasion_mni, mni_rpa_mni, mni_lpa_mni >>

MniXforms == { Eye4, RotZ(2, 0, -1) }

\* digitised fiducials (nasion, rpa, lpa) in polhemus space
PolhemusFids ==
    { XformPoints(Translation(3, 0, -6), MniFids),
      XformPoints(RotX(0, 3, 0), MniFids) }

\* digitised headshape points: an empty file, one point, two points
Headshapes == { << >>, << <<0, 90, 10>> >>, << <<0, 90, 10>>, <<50, 0, 60>> >> }

\* nonzero voxels of the scalp mask without nose: fewer than 3, or 3
MaskVoxels == { << <<0, 0, 0>>, <<1, 0, 0>> >>,
                << <<0, 0, 0>>, <<1, 0, 0>>, <<0, 1, 0>> >> }

\* the voxel of the nose
NoseVoxel == <<0, 2, 0>>

\* voxel-to-physical affines (sform) of the masks
Sform1 == Translation(-90, -126, -72)
Sform2 == RotZ(90, -126, -72)

\* the input files coreg reads
InputKeys ==
    { <<"coreg", "polhemus_headshape_file">>, <<"coreg", "polhemus_nasion_file">>,
      <<"coreg", "polhemus_rpa_file">>, <<"coreg", "polhemus_lpa_file">>,
      <<"surfaces", "bet_outskin_plus_nose_mesh_file">>,
      <<"surfaces", "bet_outskin_mesh_file">>,
      <<"surfaces", "mni_mri_t_file">>,
      <<"surfaces", "bet_inskull_mesh_vtk_file">>,
      <<"surfaces", "bet_inskull_mesh_file">>,
      <<"surfaces", "bet_outskull_mesh_vtk_file">>,
      <<"surfaces", "bet_outskull_mesh_file">>,
      <<"surfaces", "bet_outskin_mesh_vtk_file">>,
      <<"caller", "fif">> }

\* a scenario: the arguments of one coreg call and the files of its subject
DefaultScenario ==
    [ use_headshape |-> TRUE, use_nose |-> TRUE, use_dev_ctf_t |-> TRUE,
      fifname |-> "x-raw.fif", dev_ctf_t |-> None, missing |-> {},
      mni |-> Eye4, fids |-> XformPoints(Translation(3, 0, -6), MniFids),
      headshape |-> << <<0, 90, 10>>, <<50, 0, 60>> >>,
      vox |-> << <<0, 0, 0>>, <<1, 0, 0>>, <<0, 1, 0>> >>,
      nose_sform |-> Sform1,
      kernel |-> [p \in Perts |-> IF p = 0 THEN ProfConv ELSE ProfFlat],
      seeds |-> [i \in 1..NumInits |-> i % 2] ]

\* flags, fif file and missing files vary
ScenariosIO ==
    { [DefaultScenario EXCEPT !.use_headshape = uh, !.use_nose = un,
           !.use_dev_ctf_t = ud, !.fifname = fn, !.dev_ctf_t = dc, !.missing = ms] :
        uh \in BOOLEAN, un \in BOOLEAN, ud \in BOOLEAN,
        fn \in CallerFifNames, dc \in {None, Translation(0, 0, 40)},
        ms \in {{}} \cup {{k} : k \in InputKeys} }

\* the geometry varies
ScenariosGeometry ==
    { [DefaultScenario EXCEPT !.use_headshape = uh, !.use_nose = un, !.mni = m,
           !.fids = f, !.headshape = h, !.vox = v, !.nose_sform = ns] :
        uh \in BOOLEAN, un \in BOOLEAN, m \in MniXforms, f \in PolhemusFids,
        h \in Headshapes, v \in MaskVoxels, ns \in {Sform1, Sform2} }

\* the convergence of ICP and the random seeds vary
ScenariosIcp ==
    { [DefaultScenario EXCEPT !.use_nose = un, !.kernel = ke, !.seeds = se] :
        un \in BOOLEAN, ke \in Kernels, se \in SeedSeqs }

Scenarios == ScenariosIO \cup ScenariosGeometry \cup ScenariosIcp

\* the content of the file <<area, key>> of a subject in scenario sc
ContentOf(sc, area, key) ==
    IF area = "caller"
    THEN IF key = sc.fifname /\ <<"caller", "fif">> \notin sc.missing
         THEN FifFile(Translation(0, 0, 10), sc.dev_ctf_t) ELSE Absent
    ELSE IF <<area, key>> \in sc.missing THEN Absent
    ELSE IF key = "polhemus_headshape_file" THEN TxtFile(sc.headshape)
    ELSE IF key = "polhemus_nasion_file" THEN TxtFile(<< sc.fids[1] >>)
    ELSE IF key = "polhemus_rpa_file" THEN TxtFile(<< sc.fids[2] >>)
    ELSE IF key = "polhemus_lpa_file" THEN TxtFile(<< sc.fids[3] >>)
    ELSE IF key = "bet_outskin_mesh_file" THEN NiiFile(sc.vox, Sform1)
    ELSE IF key = "bet_outskin_plus_nose_mesh_file"
         THEN NiiFile(Append(sc.vox, NoseVoxel), sc.nose_sform)
    ELSE IF key = "bet_inskull_mesh_file" THEN NiiFile(<< <<0, 0, 0>> >>, Sform1)
    ELSE IF key = "bet_outskull_mesh_file" THEN NiiFile(<< <<1, 1, 1>> >>, Sform1)
    ELSE IF key = "mni_mri_t_file" THEN TransFile("mni_tal", "mri", sc.mni)
    ELSE IF key = "bet_inskull_mesh_vtk_file" THEN VtkFile("inskull")
    ELSE IF key = "bet_outskull_mesh_vtk_file" THEN VtkFile("outskull")
    ELSE IF key = "bet_outskin_mesh_vtk_file" THEN VtkFile("outskin")
    ELSE Absent

\* the arguments of the coreg call of scenario sc for a subject
ArgsOf(sc, subject) ==
    [ subject |-> subject, fif_file |-> <<subject, "caller", sc.fifname>>,
      use_headshape |-> sc.use_headshape, use_nose |-> sc.use_nose,
      use_dev_ctf_t |-> sc.use_dev_ctf_t,
      kernel |-> sc.kernel, seeds |-> sc.seeds ]

(***************************************************************************)
(* coreg, statement by statement.                                          *)
(***************************************************************************)

\* filenames[key] and surfaces_filenames[key] of job j
Fn(j, key) == get_coreg_filenames(args[j].subject, key)
Sfn(j, key) == get_surfaces_filenames(args[j].subject, key)

Exists(p) == fs[p].kind # "absent"

\* the statements of coreg in program order (rhino_icp's own are below)
Statements ==
    << "start", "load_headshape", "load_nasion", "load_rpa", "load_lpa",
       "load_mask", "read_fif", "save_fif", "standardize", "fit", "project",
       "icp_branch", "refine", "write_head_mri", "write_mrivoxel",
       "write_nasion", "write_rpa", "write_lpa", "mesh_inskull",
       "mesh_outskull", "mesh_outskin", "complete", "done" >>

IndexOf(l) == CHOOSE i \in 1..Len(Statements) : Statements[i] = l

\* a control flow that goes back to the projection after the refinement
SuccBackToProject(l) ==
    IF l = "refine" THEN "project" ELSE Statements[IndexOf(l) + 1]

\* a control flow that leaves out the statement that saves the lpa fiducial
SuccSkipsLpa(l) ==
    IF l = "write_rpa" THEN "mesh_inskull" ELSE Statements[IndexOf(l) + 1]

\* a control flow that saves the lpa fiducial before the rpa fiducial
SuccLpaBeforeRpa(l) ==
    IF l = "write_nasion" THEN "write_lpa"
    ELSE IF l = "write_lpa" THEN "write_rpa"
    ELSE IF l = "write_rpa" THEN "mesh_inskull"
    ELSE Statements[IndexOf(l) + 1]

\* the statement that follows statement l
Succ(l) == Statements[IndexOf(l) + 1]

Running(j) == pc[j] \notin {"idle", "done", "aborted", "killed"}

\* the local variables l with the assignments upd
With(l, upd) == [n \in LocNames |-> IF n \in DOMAIN upd THEN upd[n] ELSE l[n]]

Assign(j, upd) == loc' = [loc EXCEPT ![j] = With(@, upd)]

Goto(j, l) == pc' = [pc EXCEPT ![j] = l]

\* a missing file is skipped over: the run goes on with the next statement
RaiseUnlessMissing(j, kind, path) ==
    IF kind = "missing_input"
    THEN /\ pc' = [pc EXCEPT ![j] = Statements[IndexOf(pc[j]) + 1]]
         /\ outcome' = outcome
    ELSE /\ pc' = [pc EXCEPT ![j] = "aborted"]
         /\ outcome' = [outcome EXCEPT ![j] = [kind |-> kind, at |-> pc[j], path |-> path]]

\* the insufficient-data error is caught: the run goes on with the refinement
RaiseUnlessInsufficient(j, kind, path) ==
    IF kind = "insufficient_data"
    THEN /\ pc' = [pc EXCEPT ![j] = "refine"]
         /\ outcome' = outcome
    ELSE /\ pc' = [pc EXCEPT ![j] = "aborted"]
         /\ outcome' = [outcome EXCEPT ![j] = [kind |-> kind, at |-> pc[j], path |-> path]]

\* an exception leaves coreg: nothing catches it
Raise(j, kind, path) ==
    /\ pc' = [pc EXCEPT ![j] = "aborted"]
    /\ outcome' = [outcome EXCEPT ![j] = [kind |-> kind, at |-> pc[j], path |-> path]]

\* the run starts one of the six steps of the pipeline
StartStep(j, n) == log' = [log EXCEPT ![j].steps = Append(@, n)]

\* a file that exists is left as it is
WriteFileUnlessExists(j, path, content) ==
    /\ fs' = IF Exists(path) THEN fs ELSE [fs EXCEPT ![path] = content]
    /\ log' = [log EXCEPT ![j].writes = Append(@, path)]

\* a file is written (created or overwritten)
WriteFile(j, path, content) ==
    /\ fs' = [fs EXCEPT ![path] = content]
    /\ log' = [log EXCEPT ![j].writes = Append(@, path)]

\* filenames = get_coreg_filenames(...); surfaces_filenames = ...
Start(j) ==
    /\ pc[j] = "start"
    /\ Goto(j, Succ("start"))
    /\ UNCHANGED << fs, fs0, args, loc, icp, log, outcome >>

\* name = np.loadtxt(filenames[key]), the statement at label
LoadTxtInto(j, label, key, name) ==
    /\ pc[j] = label
    /\ IF Exists(Fn(j, key))
       THEN /\ Assign(j, [n \in {name} |-> LoadTxt(fs[Fn(j, key)].arr)])
            /\ Goto(j, Succ(label))
            /\ UNCHANGED outcome
       ELSE /\ Raise(j, "missing_input", Fn(j, key))
            /\ UNCHANGED loc

LoadHeadshape(j) ==
    /\ LoadTxtInto(j, "load_headshape", "polhemus_headshape_file", "polhemus_headshape")
    /\ StartStep(j, 1)
    /\ UNCHANGED << fs, fs0, args, icp >>

LoadNasion(j) ==
    /\ LoadTxtInto(j, "load_nasion", "polhemus_nasion_file", "polhemus_nasion")
    /\ UNCHANGED << fs, fs0, args, icp, log >>

LoadRpa(j) ==
    /\ LoadTxtInto(j, "load_rpa", "polhemus_rpa_file", "polhemus_rpa")
    /\ UNCHANGED << fs, fs0, args, icp, log >>

LoadLpa(j) ==
    /\ LoadTxtInto(j, "load_lpa", "polhemus_lpa_file", "polhemus_lpa")
    /\ UNCHANGED << fs, fs0, args, icp, log >>

\* the scalp mask the registration uses
OutskinMeshFile(j) ==
    IF args[j].use_nose
    THEN Sfn(j, "bet_outskin_plus_nose_mesh_file")
    ELSE Sfn(j, "bet_outskin_mesh_file")

\* smri_headshape_nativeindex = niimask2indexpointcloud(outskin_mesh_file)
LoadMask(j) ==
    /\ pc[j] = "load_mask"
    /\ LET f == OutskinMeshFile(j)
       IN  IF Exists(f)
           THEN /\ Assign(j, [outskin_mesh_file |-> f,
                              smri_headshape_nativeindex |-> fs[f].vox])
                /\ Goto(j, Succ("load_mask"))
                /\ UNCHANGED outcome
           ELSE /\ Raise(j, "missing_input", f)
                /\ UNCHANGED loc
    /\ UNCHANGED << fs, fs0, args, icp, log >>

\* fif_file[-7:] == "raw.fif", fif_file[-10:] == "epochs.fif"
EndsWithRawFif(path) == path[3] = "x-raw.fif"

\* every file name is taken for an epochs file
EndsWithAnything(path) == TRUE

\* fif_file[-10:] == "epochs.fif"
EndsWithEpochsFif(path) == path[3] = "x-epochs.fif"

\* dev_head_t is set to dev_ctf_t whenever dev_ctf_t exists, asked for or not
WithDevHeadTUnasked(j, raw) ==
    IF raw.dev_ctf_t # None
    THEN [raw EXCEPT !.dev_head_t = raw.dev_ctf_t]
    ELSE raw

\* the recording as saved: dev_head_t is set to dev_ctf_t when asked for and
\* dev_ctf_t exists
WithDevHeadT(j, raw) ==
    IF args[j].use_dev_ctf_t /\ raw.dev_ctf_t # None
    THEN [raw EXCEPT !.dev_head_t = raw.dev_ctf_t]
    ELSE raw

\* raw = read_raw(fif_file) or read_epochs(fif_file); dev_head_t
ReadFif(j) ==
    /\ pc[j] = "read_fif"
    /\ LET f == args[j].fif_file
       IN  IF ~(EndsWithRawFif(f) \/ EndsWithEpochsFif(f))
           THEN Raise(j, "ValueError", f) /\ UNCHANGED loc
           ELSE IF ~Exists(f)
           THEN Raise(j, "missing_input", f) /\ UNCHANGED loc
           ELSE /\ Assign(j, [raw |-> WithDevHeadT(j, fs[f])])
                /\ Goto(j, Succ("read_fif"))
                /\ UNCHANGED outcome
    /\ UNCHANGED << fs, fs0, args, icp, log >>

\* the recording is saved over the caller's file
SaveFifInPlace(j) ==
    /\ pc[j] = "save_fif"
    /\ WriteFile(j, args[j].fif_file, loc[j].raw)
    /\ Assign(j, [fif_file |-> args[j].fif_file])
    /\ Goto(j, Succ("save_fif"))
    /\ UNCHANGED << fs0, args, icp, outcome >>

\* raw.save(filenames["fif_file"], overwrite=True)
SaveFif(j) ==
    /\ pc[j] = "save_fif"
    /\ WriteFile(j, Fn(j, "fif_file"), loc[j].raw)
    /\ Assign(j, [fif_file |-> Fn(j, "fif_file")])
    /\ Goto(j, Succ("save_fif"))
    /\ UNCHANGED << fs0, args, icp, outcome >>

\* mni_mri_t = read_trans(...); the sMRI-derived fiducials in native space
Standardize(j) ==
    /\ pc[j] = "standardize"
    /\ StartStep(j, 2)
    /\ LET f == Sfn(j, "mni_mri_t_file")
       IN  IF Exists(f)
           THEN /\ Assign(j, [smri_nasion_native |-> XformPoint(fs[f].trans, mni_nasion_mni),
                              smri_lpa_native |-> XformPoint(fs[f].trans, mni_lpa_mni),
                              smri_rpa_native |-> XformPoint(fs[f].trans, mni_rpa_mni)])
                /\ Goto(j, Succ("standardize"))
                /\ UNCHANGED outcome
           ELSE /\ Raise(j, "missing_input", f)
                /\ UNCHANGED loc
    /\ UNCHANGED << fs, fs0, args, icp >>

\* polhemus_fid_polhemus: nasion, rpa, lpa as columns
PolhemusFidPolhemus(l) ==
    Array2(<< ReshapeColumn(l.polhemus_nasion), ReshapeColumn(l.polhemus_rpa),
              ReshapeColumn(l.polhemus_lpa) >>)

\* the structural fiducials assembled in the order nasion, lpa, rpa
SmriFidNativeLpaFirst(l) ==
    Array2(<< l.smri_nasion_native, l.smri_lpa_native, l.smri_rpa_native >>)

\* smri_fid_native: nasion, rpa, lpa as columns
SmriFidNative(l) ==
    Array2(<< l.smri_nasion_native, l.smri_rpa_native, l.smri_lpa_native >>)

\* xform_native2polhemus = rigid_transform_3D(polhemus_fid_polhemus, smri_fid_native)
Fit(j) ==
    /\ pc[j] = "fit"
    /\ StartStep(j, 3)
    /\ LET A == PolhemusFidPolhemus(loc[j])
           B == SmriFidNative(loc[j])
       IN  IF InsufficientData(A.cols, B.cols)
           THEN Raise(j, "insufficient_data", Unset) /\ UNCHANGED loc
           ELSE /\ Assign(j, [polhemus_fid_polhemus |-> A, smri_fid_native |-> B,
                              xform_native2polhemus |-> rigid_transform_3D(A.cols, B.cols)])
                /\ Goto(j, Succ("fit"))
                /\ UNCHANGED outcome
    /\ UNCHANGED << fs, fs0, args, icp >>

\* the sMRI-derived headshape points in native and in polhemus space
Project(j) ==
    /\ pc[j] = "project"
    /\ StartStep(j, 4)
    /\ LET sform == fs[loc[j].outskin_mesh_file].sform
           native == XformPoints(sform, loc[j].smri_headshape_nativeindex)
       IN  Assign(j, [xform_nativeindex2native |-> sform,
                      smri_headshape_native |-> native,
                      smri_headshape_polhemus |->
                          XformPoints(loc[j].xform_native2polhemus, native)])
    /\ Goto(j, Succ("project"))
    /\ UNCHANGED << fs, fs0, args, icp, outcome >>

\* the headshape-usage flag left out of the test
AlwaysRunsIcp(j) == TRUE

\* if use_headshape:
RunsIcp(j) == args[j].use_headshape

\* if use_headshape: ... rhino_icp(...) else: xform_icp = np.eye(4)
IcpBranch(j) ==
    /\ pc[j] = "icp_branch"
    /\ StartStep(j, 5)
    /\ IF RunsIcp(j)
       THEN IF ConcatFails(loc[j].polhemus_headshape, loc[j].polhemus_fid_polhemus)
            THEN Raise(j, "ValueError", Unset) /\ UNCHANGED loc
            ELSE /\ Assign(j, [polhemus_headshape_4icp |->
                                 Concat(loc[j].polhemus_headshape,
                                        loc[j].polhemus_fid_polhemus)])
                 /\ Goto(j, "icp_call")
                 /\ UNCHANGED outcome
       ELSE /\ Assign(j, [xform_icp |-> Eye4])
            /\ Goto(j, Succ("icp_branch"))
            /\ UNCHANGED outcome
    /\ UNCHANGED << fs, fs0, args, icp >>


(***************************************************************************)
(* rhino_icp(fixed, moving, max_iterations): multi-start ICP (design       *)
(* section 4.3), called at the statement "icp_call" of coreg.              *)
(***************************************************************************)

\* the jobs draw from one shared random stream: what a job draws depends on
\* how many draws the other jobs have made
DrawShared(j, k) ==
    LET o == CHOOSE x \in Jobs : x # j
    IN  args[j].seeds[((k - 1 + icp[o].k) % NumInits) + 1]

\* the perturbation initialisation k of job j draws from its seed sequence
Draw(j, k) == args[j].seeds[k]

\* entry of rhino_icp(smri_headshape_polhemus, polhemus_headshape_4icp, 30)
IcpCall(j) ==
    /\ pc[j] = "icp_call"
    /\ log' = [log EXCEPT ![j].icp_calls = @ + 1]
    /\ LET fixed == loc[j].smri_headshape_polhemus
           moving == loc[j].polhemus_headshape_4icp.cols
       IN  IF InsufficientData(fixed, moving)
           THEN /\ Raise(j, "insufficient_data", Unset)
                /\ icp' = [icp EXCEPT ![j] = [Icp0 EXCEPT !.fixed = fixed,
                                                          !.moving = moving]]
           ELSE /\ icp' = [icp EXCEPT ![j] = [Icp0 EXCEPT !.fixed = fixed,
                                                          !.moving = moving, !.k = 1]]
                /\ Goto(j, "icp_start")
                /\ UNCHANGED outcome
    /\ UNCHANGED << fs, fs0, args, loc >>

\* initialisation k starts from a random perturbation of the estimate
IcpStart(j) ==
    /\ pc[j] = "icp_start"
    /\ LET p == Draw(j, icp[j].k)
       IN  icp' = [icp EXCEPT ![j].pert = p, ![j].iter = 0, ![j].T = Perturb(p),
                              ![j].err = KernelErr(args[j].kernel[p], 0),
                              ![j].history = << >>, ![j].stop = ""]
    /\ Goto(j, "icp_iter")
    /\ UNCHANGED << fs, fs0, args, loc, log, outcome >>

\* the test of convergence left out
NeverConverged(prev, err) == FALSE

\* the improvement of the error is below the tolerance
Converged(prev, err) == prev - err < Tol

\* the reason one ICP run stops after an iteration, "" to go on
StopReason(iter, prev, err, max_iterations) ==
    IF Converged(prev, err) THEN "converged"
    ELSE IF iter >= max_iterations THEN "max_iterations"
    ELSE ""

\* one iteration: correspondences, incremental transform, composition, error
IcpIterate(j) ==
    /\ pc[j] = "icp_iter"
    /\ LET c == icp[j]
           n == c.iter + 1
           e == KernelErr(args[j].kernel[c.pert], n)
           why == StopReason(n, c.err, e, MaxIterations)
       IN  /\ icp' = [icp EXCEPT ![j].iter = n,
                                 ![j].T = MatMul(KernelInc(c.pert), c.T),
                                 ![j].err = e,
                                 ![j].history = Append(c.history, e),
                                 ![j].stop = why]
           /\ Goto(j, IF why = "" THEN "icp_iter" ELSE "icp_end")
    /\ UNCHANGED << fs, fs0, args, loc, log, outcome >>

\* a tie replaces the best run too
BetterOrEqual(err, best) == best = Unset \/ err <= best.err

\* this run replaces the best run so far: strictly lower final error
Better(err, best) == best = Unset \/ err < best.err

\* the end of initialisation k: keep the best run, go on or return
IcpEnd(j) ==
    /\ pc[j] = "icp_end"
    /\ LET c == icp[j]
           this == [k |-> c.k, pert |-> c.pert, T |-> c.T, err |-> c.err,
                    history |-> c.history, iters |-> c.iter, stop |-> c.stop]
           best == IF Better(c.err, c.best) THEN this ELSE c.best
       IN  IF c.k < NumInits
           THEN /\ icp' = [icp EXCEPT ![j].k = c.k + 1, ![j].best = best,
                                      ![j].runs = Append(c.runs, this)]
                /\ Goto(j, "icp_start")
                /\ UNCHANGED loc
           ELSE /\ icp' = [icp EXCEPT ![j].best = best,
                                      ![j].runs = Append(c.runs, this)]
                /\ Assign(j, [xform_icp |-> best.T, err |-> best.err,
                              e |-> best.history])
                /\ Goto(j, Succ("icp_branch"))
    /\ UNCHANGED << fs, fs0, args, log, outcome >>

(***************************************************************************)
(* coreg after the refinement.                                             *)
(***************************************************************************)

\* the ICP transform applied without inverting it
RefinedXformNotInverted(xform_icp, xform_native2polhemus) ==
    MatMul(xform_icp, xform_native2polhemus)

\* the two factors multiplied in the other order
RefinedXformFitLast(xform_icp, xform_native2polhemus) ==
    MatMul(xform_native2polhemus, MatInv(xform_icp))

\* np.linalg.inv(xform_icp) @ xform_native2polhemus
RefinedXform(xform_icp, xform_native2polhemus) ==
    MatMul(MatInv(xform_icp), xform_native2polhemus)

\* xform_native2polhemus_refined and the sMRI-derived points in refined space
Refine(j) ==
    /\ pc[j] = "refine"
    /\ IF Singular(loc[j].xform_icp)
       THEN Raise(j, "LinAlgError", Unset) /\ UNCHANGED loc
       ELSE LET r == RefinedXform(loc[j].xform_icp, loc[j].xform_native2polhemus)
            IN  /\ Assign(j, [xform_native2polhemus_refined |-> r,
                              smri_headshape_polhemus |->
                                  XformPoints(r, loc[j].smri_headshape_native),
                              smri_nasion_polhemus |-> XformPoint(r, loc[j].smri_nasion_native),
                              smri_rpa_polhemus |-> XformPoint(r, loc[j].smri_rpa_native),
                              smri_lpa_polhemus |-> XformPoint(r, loc[j].smri_lpa_native)])
                /\ Goto(j, Succ("refine"))
                /\ UNCHANGED outcome
    /\ UNCHANGED << fs, fs0, args, icp, log >>

\* head_mri_t = Transform("head", "mri", inv(refined)); write_trans(...)
WriteHeadMri(j) ==
    /\ pc[j] = "write_head_mri"
    /\ IF Singular(loc[j].xform_native2polhemus_refined)
       THEN /\ Raise(j, "LinAlgError", Unset)
            /\ StartStep(j, 6)
            /\ UNCHANGED << fs, loc >>
       ELSE LET t == TransFile("head", "mri", MatInv(loc[j].xform_native2polhemus_refined))
            IN  /\ fs' = [fs EXCEPT ![Fn(j, "head_mri_t_file")] = t]
                /\ log' = [log EXCEPT ![j].steps = Append(@, 6),
                                      ![j].writes = Append(@, Fn(j, "head_mri_t_file"))]
                /\ Assign(j, [head_mri_t |-> t])
                /\ Goto(j, Succ("write_head_mri"))
                /\ UNCHANGED outcome
    /\ UNCHANGED << fs0, args, icp >>

\* the voxel-to-native transform persisted is the affine composed with the
\* refined native-to-head transform
WriteMrivoxelRefined(j) ==
    /\ pc[j] = "write_mrivoxel"
    /\ LET t == TransFile("mri_voxel", "mri",
                          MatMul(loc[j].xform_native2polhemus_refined,
                                 loc[j].xform_nativeindex2native))
       IN  /\ WriteFile(j, Fn(j, "mrivoxel_mri_t_file"), t)
           /\ Assign(j, [mrivoxel_mri_t |-> t])
    /\ Goto(j, Succ("write_mrivoxel"))
    /\ UNCHANGED << fs0, args, icp, outcome >>

\* mrivoxel_mri_t = Transform("mri_voxel", "mri", nativeindex_native_t); write_trans(...)
WriteMrivoxel(j) ==
    /\ pc[j] = "write_mrivoxel"
    /\ LET t == TransFile("mri_voxel", "mri", loc[j].xform_nativeindex2native)
       IN  /\ WriteFile(j, Fn(j, "mrivoxel_mri_t_file"), t)
           /\ Assign(j, [mrivoxel_mri_t |-> t])
    /\ Goto(j, Succ("write_mrivoxel"))
    /\ UNCHANGED << fs0, args, icp, outcome >>

\* np.savetxt(filenames[key], loc[name]), the statement at label
SaveTxt(j, label, key, name) ==
    /\ pc[j] = label
    /\ WriteFile(j, Fn(j, key), TxtFile(<< loc[j][name] >>))
    /\ Goto(j, Succ(label))
    /\ UNCHANGED << fs0, args, loc, icp, outcome >>

WriteNasion(j) == SaveTxt(j, "write_nasion", "smri_nasion_file", "smri_nasion_polhemus")

WriteRpa(j) == SaveTxt(j, "write_rpa", "smri_rpa_file", "smri_rpa_polhemus")

WriteLpa(j) == SaveTxt(j, "write_lpa", "smri_lpa_file", "smri_lpa_polhemus")

\* create_freesurfer_mesh(infile, surf_outfile, nii_mesh_file, xform_mri_voxel2mri),
\* the statement at label: reads the vtk mesh and the mask, writes the surface
CreateFreesurferMesh(j, label, infile, surf_outfile, nii_mesh_file) ==
    /\ pc[j] = label
    /\ IF ~Exists(Sfn(j, infile))
       THEN Raise(j, "missing_input", Sfn(j, infile)) /\ UNCHANGED << fs, log >>
       ELSE IF ~Exists(Sfn(j, nii_mesh_file))
       THEN Raise(j, "missing_input", Sfn(j, nii_mesh_file)) /\ UNCHANGED << fs, log >>
       ELSE /\ WriteFile(j, Sfn(j, surf_outfile),
                         SurfFile(fs[Sfn(j, infile)].id, Sfn(j, nii_mesh_file),
                                  loc[j].mrivoxel_mri_t.trans))
            /\ Goto(j, Succ(label))
            /\ UNCHANGED outcome
    /\ UNCHANGED << fs0, args, loc, icp >>

MeshInskull(j) ==
    CreateFreesurferMesh(j, "mesh_inskull", "bet_inskull_mesh_vtk_file",
                         "bet_inskull_surf_file", "bet_inskull_mesh_file")

MeshOutskull(j) ==
    CreateFreesurferMesh(j, "mesh_outskull", "bet_outskull_mesh_vtk_file",
                         "bet_outskull_surf_file", "bet_outskull_mesh_file")

\* the scalp surface is built from the mask the registration read
MeshOutskinFromRegistrationMask(j) ==
    CreateFreesurferMesh(j, "mesh_outskin", "bet_outskin_mesh_vtk_file",
                         "bet_outskin_surf_file",
                         IF args[j].use_nose THEN "bet_outskin_plus_nose_mesh_file"
                         ELSE "bet_outskin_mesh_file")

MeshOutskin(j) ==
    CreateFreesurferMesh(j, "mesh_outskin", "bet_outskin_mesh_vtk_file",
                         "bet_outskin_surf_file", "bet_outskin_mesh_file")

\* log_or_print("*** OSL RHINO COREGISTRATION COMPLETE ***")
Complete(j) ==
    /\ pc[j] = "complete"
    /\ Goto(j, Succ("complete"))
    /\ UNCHANGED << fs, fs0, args, loc, icp, log, outcome >>

\* the process is interrupted (killed) between two statements
Interrupt(j) ==
    /\ Running(j)
    /\ Goto(j, "killed")
    /\ UNCHANGED << fs, fs0, args, loc, icp, log, outcome >>

Step(j) ==
    \/ Start(j)
    \/ LoadHeadshape(j)
    \/ LoadNasion(j)
    \/ LoadRpa(j)
    \/ LoadLpa(j)
    \/ LoadMask(j)
    \/ ReadFif(j)
    \/ SaveFif(j)
    \/ Standardize(j)
    \/ Fit(j)
    \/ Project(j)
    \/ IcpBranch(j)
    \/ IcpCall(j)
    \/ IcpStart(j)
    \/ IcpIterate(j)
    \/ IcpEnd(j)
    \/ Refine(j)
    \/ WriteHeadMri(j)
    \/ WriteMrivoxel(j)
    \/ WriteNasion(j)
    \/ WriteRpa(j)
    \/ WriteLpa(j)
    \/ MeshInskull(j)
    \/ MeshOutskull(j)
    \/ MeshOutskin(j)
    \/ Complete(j)

\* one coreg call for subject s1 in scenario sc
InitOf(sc) ==
    /\ fs = [p \in Paths |-> IF p[1] = "s1" THEN ContentOf(sc, p[2], p[3]) ELSE Absent]
    /\ fs0 = fs
    /\ args = [j \in Jobs |-> ArgsOf(sc, IF j = "a" THEN "s1" ELSE "s2")]
    /\ pc = [j \in Jobs |-> IF j = "a" THEN "start" ELSE "idle"]
    /\ loc = [j \in Jobs |-> Loc0]
    /\ icp = [j \in Jobs |-> Icp0]
    /\ log = [j \in Jobs |-> Log0]
    /\ outcome = [j \in Jobs |-> NoError]

Next == \E j \in Jobs : Step(j) \/ Interrupt(j)

\* one coreg call, for subject s1
Init == \E sc \in Scenarios : InitOf(sc)

Spec == Init /\ [][Next]_vars

\* the seed sequence read backwards
Reverse(se) == [i \in 1..NumInits |-> se[NumInits + 1 - i]]

\* two coreg calls, one per subject, on the same clouds; the second with the
\* seed sequence of the first or with another one, and with all its files or
\* with the outer skull mask missing
ScenariosPair ==
    { [DefaultScenario EXCEPT !.kernel = ke, !.seeds = se, !.missing = ms] :
        ke \in { [p \in Perts |-> IF p = 0 THEN ProfConv ELSE ProfFlat],
                 [p \in Perts |-> IF p = 0 THEN ProfGood ELSE ProfFlat] },
        se \in SeedSeqs,
        ms \in { {}, {<<"surfaces", "bet_outskull_mesh_file">>} } }

InitPair ==
    \E sa \in ScenariosPair, sb \in ScenariosPair :
        /\ sa.kernel = sb.kernel
        /\ sb.seeds \in {sa.seeds, Reverse(sa.seeds)}
        /\ sa.missing = {}
        /\ sb.missing # {} => sa.seeds = DefaultScenario.seeds /\ sb.seeds = sa.seeds
        /\ fs = [p \in Paths |-> ContentOf(IF p[1] = "s1" THEN sa ELSE sb, p[2], p[3])]
        /\ fs0 = fs
        /\ args = [j \in Jobs |-> IF j = "a" THEN ArgsOf(sa, "s1") ELSE ArgsOf(sb, "s2")]
        /\ pc = [j \in Jobs |-> "start"]
        /\ loc = [j \in Jobs |-> Loc0]
        /\ icp = [j \in Jobs |-> Icp0]
        /\ log = [j \in Jobs |-> Log0]
        /\ outcome = [j \in Jobs |-> NoError]

NextPair == \E j \in Jobs : Step(j)

SpecPair == InitPair /\ [][NextPair]_vars

\* the runs in which the convergence of ICP and the seeds vary
InitIcp == \E sc \in ScenariosIcp : InitOf(sc)

\* the statements of rhino_icp
IcpStep(j) == IcpCall(j) \/ IcpStart(j) \/ IcpIterate(j) \/ IcpEnd(j)

\* rhino_icp is synchronous computation without suspension points: a job
\* inside it that is not interrupted goes on to its next statement
FairSpec == InitIcp /\ [][Next]_vars /\ WF_vars(\E j \in Jobs : IcpStep(j))

(***************************************************************************)
(* One ICP run on point clouds: the iteration of design section 4.3 on a   *)
(* fixed and a moving cloud from an initial estimate, outside coreg.       *)
(***************************************************************************)

\* fixed clouds
KernelFixed ==
    { << <<0, 0, 0>>, <<4, 0, 0>>, <<0, 6, 0>>, <<0, 0, 9>> >>,
      << <<0, 0, 0>>, <<5, 0, 0>>, <<0, 8, 0>>, <<3, 3, 7>>, <<-6, 1, 2>> >> }

\* ground-truth rigid transforms from the moving to the fixed cloud
KernelTruths == { Eye4, Translation(3, 0, -6), RotZ(2, 0, -1), RotX(0, 3, 0) }

\* a moving cloud that is no rigid image of a fixed cloud
KernelUnrelated == << <<1, 1, 0>>, <<5, 2, 1>>, <<0, 7, 3>> >>

\* perturbations of the ground truth that give the initial estimate
KernelOffsets ==
    { Eye4, Translation(1, 0, 0), Translation(0, -1, 1), RotZ(0, 0, 0), RotX(0, 0, 0) }

\* the points of a cloud in reverse order
ReverseCloud(pts) == [i \in 1..Len(pts) |-> pts[Len(pts) + 1 - i]]

\* the moving cloud: the fixed cloud taken back by the ground truth, in the
\* same or in reverse order, or an unrelated cloud
KernelMoving(kind, F, G) ==
    IF kind = "image" THEN XformPoints(MatInv(G), F)
    ELSE IF kind = "reversed" THEN ReverseCloud(XformPoints(MatInv(G), F))
    ELSE KernelUnrelated

InitKernel ==
    \E F \in KernelFixed, G \in KernelTruths, O \in KernelOffsets,
       kind \in {"image", "reversed", "unrelated"} :
        LET M == KernelMoving(kind, F, G)
            T0 == MatMul(O, G)
        IN  /\ args = [j \in Jobs |-> [truth |-> G, guess |-> T0,
                                        related |-> kind # "unrelated"]]
            /\ icp = [j \in Jobs |->
                         IF j = "a"
                         THEN [Icp0 EXCEPT !.fixed = F, !.moving = M, !.T = T0,
                                           !.err = IcpError(F, XformPoints(T0, M))]
                         ELSE Icp0]
            /\ pc = [j \in Jobs |-> IF j = "a" THEN "kernel_iter" ELSE "idle"]
            /\ fs = [p \in Paths |-> Absent]
            /\ fs0 = fs
            /\ loc = [j \in Jobs |-> Loc0]
            /\ log = [j \in Jobs |-> Log0]
            /\ outcome = [j \in Jobs |-> NoError]

\* one iteration of the run, and the test of termination
KernelIterate(j) ==
    /\ pc[j] = "kernel_iter"
    /\ LET c == icp[j]
           n == c.iter + 1
           T == IcpRefineOnce(c.fixed, c.moving, c.T)
           e == IcpError(c.fixed, XformPoints(T, c.moving))
           why == StopReason(n, c.err, e, MaxIterations)
       IN  /\ icp' = [icp EXCEPT ![j].iter = n, ![j].T = T, ![j].err = e,
                                 ![j].history = Append(c.history, e),
                                 ![j].stop = why]
           /\ Goto(j, IF why = "" THEN "kernel_iter" ELSE "kernel_done")
    /\ UNCHANGED << fs, fs0, args, loc, log, outcome >>

NextKernel == \E j \in Jobs : KernelIterate(j)

SpecKernel == InitKernel /\ [][NextKernel]_vars

\* two coreg calls that differ in use_nose only, one per subject, on subjects
\* with the same files: without or with the headshape points, with the scalp
\* mask that includes the nose present or absent (compute_surfaces run
\* without the nose), with the sform of the two scalp masks equal or not
ScenariosNose ==
    { sc \in { [DefaultScenario EXCEPT !.use_headshape = uh, !.missing = ms,
                                       !.nose_sform = ns] :
                  uh \in BOOLEAN,
                  ms \in { {}, {<<"surfaces", "bet_outskin_plus_nose_mesh_file">>} },
                  ns \in {Sform1, Sform2} } :
        sc.use_headshape => sc.missing = {} /\ sc.nose_sform = Sform1 }

InitNose ==
    \E sc \in ScenariosNose :
        /\ fs = [p \in Paths |-> ContentOf(sc, p[2], p[3])]
        /\ fs0 = fs
        /\ args = [j \in Jobs |->
                       IF j = "a" THEN ArgsOf([sc EXCEPT !.use_nose = TRUE], "s1")
                       ELSE ArgsOf([sc EXCEPT !.use_nose = FALSE], "s2")]
        /\ pc = [j \in Jobs |-> "start"]
        /\ loc = [j \in Jobs |-> Loc0]
        /\ icp = [j \in Jobs |-> Icp0]
        /\ log = [j \in Jobs |-> Log0]
        /\ outcome = [j \in Jobs |-> NoError]

SpecNose == InitNose /\ [][NextPair]_vars

\* coreg is run again for the same subject: the second call, with its own
\* arguments, starts when the first has ended (completed, failed or killed)
Rerun(j) ==
    /\ pc[j] = "idle"
    /\ \A o \in Jobs \ {j} : pc[o] \in {"done", "aborted", "killed"}
    /\ Goto(j, "start")
    /\ UNCHANGED << fs, fs0, args, loc, icp, log, outcome >>

\* the arguments of the first and of the second call
ScenariosRerun ==
    { [DefaultScenario EXCEPT !.use_headshape = uh, !.use_nose = un,
                              !.nose_sform = Sform2] :
        uh \in BOOLEAN, un \in BOOLEAN }

InitRerun ==
    \E sa \in ScenariosRerun, sb \in ScenariosRerun :
        /\ sa.use_nose
        /\ fs = [p \in Paths |-> IF p[1] = "s1" THEN ContentOf(sa, p[2], p[3]) ELSE Absent]
        /\ fs0 = fs
        /\ args = [j \in Jobs |-> IF j = "a" THEN ArgsOf(sa, "s1") ELSE ArgsOf(sb, "s1")]
        /\ pc = [j \in Jobs |-> IF j = "a" THEN "start" ELSE "idle"]
        /\ loc = [j \in Jobs |-> Loc0]
        /\ icp = [j \in Jobs |-> Icp0]
        /\ log = [j \in Jobs |-> Log0]
        /\ outcome = [j \in Jobs |-> NoError]

NextRerun == \E j \in Jobs : Step(j) \/ Interrupt(j) \/ Rerun(j)

SpecRerun == InitRerun /\ [][NextRerun]_vars

(***************************************************************************)
(* The transform utilities and the rigid solver on their own (design       *)
(* sections 4.1 and 4.2): a transform is applied to a cloud, inverted and  *)
(* applied back, and the solver is given the cloud and its image.          *)
(***************************************************************************)

\* point clouds: empty, one point, three points (in general position and on
\* a line), four points
UtilClouds ==
    { << >>,
      << <<2, -3, 5>> >>,
      MniFids,
      << <<0, 0, 0>>, <<4, 0, 0>>, <<0, 6, 0>> >>,
      << <<1, 1, 1>>, <<2, 2, 2>>, <<4, 4, 4>> >>,
      << <<0, 0, 0>>, <<4, 0, 0>>, <<0, 6, 0>>, <<0, 0, 9>> >> }

\* the transform with the rotation block of R and the translation (x, y, z)
WithTranslation(R, x, y, z) ==
    << <<R[1][1], R[1][2], R[1][3], x>>, <<R[2][1], R[2][2], R[2][3], y>>,
       <<R[3][1], R[3][2], R[3][3], z>>, <<0, 0, 0, 1>> >>

\* transforms: the rigid ones, a reflection, two shears, a singular matrix
UtilXforms ==
    { WithTranslation(R, t[1], t[2], t[3]) :
          R \in Rotations, t \in { <<0, 0, 0>>, <<5, -2, 7>> } }
    \cup { << <<-1, 0, 0, 3>>, <<0, 1, 0, 0>>, <<0, 0, 1, -4>>, <<0, 0, 0, 1>> >>,
           << <<1, 2, 0, 1>>, <<0, 1, 0, 0>>, <<0, 0, 1, 0>>, <<0, 0, 0, 1>> >>,
           << <<1, 0, 0, 0>>, <<3, 1, 0, -2>>, <<0, -1, 1, 6>>, <<0, 0, 0, 1>> >>,
           << <<1, 2, 0, 1>>, <<2, 4, 0, 0>>, <<0, 0, 1, 0>>, <<0, 0, 0, 1>> >> }

InitUtils ==
    \E P \in UtilClouds, T \in UtilXforms :
        /\ args = [j \in Jobs |-> [points |-> P, xform |-> T]]
        /\ pc = [j \in Jobs |-> IF j = "a" THEN "apply" ELSE "idle"]
        /\ fs = [p \in Paths |-> Absent]
        /\ fs0 = fs
        /\ loc = [j \in Jobs |-> Loc0]
        /\ icp = [j \in Jobs |-> Icp0]
        /\ log = [j \in Jobs |-> Log0]
        /\ outcome = [j \in Jobs |-> NoError]

\* apply_transform(T, P)
ApplyTransform(j) ==
    /\ pc[j] = "apply"
    /\ Assign(j, [smri_headshape_polhemus |-> XformPoints(args[j].xform, args[j].points)])
    /\ Goto(j, "invert")
    /\ UNCHANGED << fs, fs0, args, icp, log, outcome >>

\* apply_transform(invert(T), apply_transform(T, P)); invert fails on a
\* singular matrix
InvertTransform(j) ==
    /\ pc[j] = "invert"
    /\ IF Singular(args[j].xform)
       THEN Raise(j, "LinAlgError", Unset) /\ UNCHANGED loc
       ELSE /\ Assign(j, [head_mri_t |-> MatInv(args[j].xform),
                          smri_headshape_native |->
                              XformPoints(MatInv(args[j].xform),
                                          loc[j].smri_headshape_polhemus)])
            /\ Goto(j, "solve")
            /\ UNCHANGED outcome
    /\ UNCHANGED << fs, fs0, args, icp, log >>

\* solve_rigid(P, apply_transform(T, P)) for a cloud of exactly 3 points:
\* rigid_transform_3D(target, source)
SolveRigid(j) ==
    /\ pc[j] = "solve"
    /\ IF Len(args[j].points) > 3
       THEN Goto(j, "utils_done") /\ UNCHANGED << loc, outcome >>
       ELSE IF InsufficientData(loc[j].smri_headshape_polhemus, args[j].points)
       THEN Raise(j, "insufficient_data", Unset) /\ UNCHANGED loc
       ELSE /\ Assign(j, [xform_native2polhemus |->
                              rigid_transform_3D(loc[j].smri_headshape_polhemus,
                                                 args[j].points)])
            /\ Goto(j, "utils_done")
            /\ UNCHANGED outcome
    /\ UNCHANGED << fs, fs0, args, icp, log >>

NextUtils == \E j \in Jobs : ApplyTransform(j) \/ InvertTransform(j) \/ SolveRigid(j)

SpecUtils == InitUtils /\ [][NextUtils]_vars

(***************************************************************************)
(* Properties.                                                             *)
(***************************************************************************)

Range(f) == { f[i] : i \in DOMAIN f }

IsPrefix(u, v) == Len(u) <= Len(v) /\ \A i \in 1..Len(u) : u[i] = v[i]

\* the six steps of the pipeline: Load, Standardize fiducials, Initial rigid
\* fit, Project structural headshape, ICP refinement, Persist
SixSteps == << 1, 2, 3, 4, 5, 6 >>

\* the outputs of step 6, in the order of the claim: head-to-native transform,
\* voxel-to-native transform, nasion, rpa, lpa, inner skull, outer skull, scalp
Step6Outputs(j) ==
    << Fn(j, "head_mri_t_file"), Fn(j, "mrivoxel_mri_t_file"),
       Fn(j, "smri_nasion_file"), Fn(j, "smri_rpa_file"), Fn(j, "smri_lpa_file"),
       Sfn(j, "bet_inskull_surf_file"), Sfn(j, "bet_outskull_surf_file"),
       Sfn(j, "bet_outskin_surf_file") >>

IsStep6Output(j, p) == p \in Range(Step6Outputs(j))

\* the step-6 outputs the run of job j has written so far, in order
Step6Writes(j) == SelectSeq(log[j].writes, LAMBDA p : IsStep6Output(j, p))

\* the statements of step 6
PersistStatements ==
    { "write_head_mri", "write_mrivoxel", "write_nasion", "write_rpa",
      "write_lpa", "mesh_inskull", "mesh_outskull", "mesh_outskin" }

\* C1: in every run the six steps start in the order Load, Standardize, Fit,
\* Project, ICP refinement, Persist: the steps started so far are always an
\* initial part of 1..6 (no step twice, none after a later one), and a run
\* that completes has started all six.
C1_StepsInOrder ==
    \A j \in Jobs :
        /\ IsPrefix(log[j].steps, SixSteps)
        /\ pc[j] = "done" => log[j].steps = SixSteps

C1_Witness ==
    \E j \in Jobs : pc[j] = "done" /\ log[j].steps = SixSteps /\ log[j].icp_calls = 1

\* C2: with use_headshape disabled ICP is never invoked, the refined
\* native-to-head transform equals the initial fiducial fit, the structural
\* fiducials are placed with it and the persisted head-to-native transform is
\* its inverse.
C2_NoHeadshapeNoRefinement ==
    \A j \in Jobs :
        ~args[j].use_headshape =>
            /\ log[j].icp_calls = 0
            /\ icp[j] = Icp0
            /\ pc[j] \notin {"icp_call", "icp_start", "icp_iter", "icp_end"}
            /\ loc[j].xform_native2polhemus_refined # Unset =>
                /\ loc[j].xform_native2polhemus_refined = loc[j].xform_native2polhemus
                /\ loc[j].smri_nasion_polhemus =
                       XformPoint(loc[j].xform_native2polhemus, loc[j].smri_nasion_native)
                /\ loc[j].smri_rpa_polhemus =
                       XformPoint(loc[j].xform_native2polhemus, loc[j].smri_rpa_native)
                /\ loc[j].smri_lpa_polhemus =
                       XformPoint(loc[j].xform_native2polhemus, loc[j].smri_lpa_native)
            /\ Fn(j, "head_mri_t_file") \in Range(log[j].writes) =>
                   MatMul(fs[Fn(j, "head_mri_t_file")].trans,
                          loc[j].xform_native2polhemus) = Eye4

C2_Witness ==
    \E j \in Jobs :
        /\ ~args[j].use_headshape
        /\ pc[j] = "done"
        /\ loc[j].xform_native2polhemus # Eye4
        /\ fs[Fn(j, "smri_nasion_file")] =
               TxtFile(<< XformPoint(loc[j].xform_native2polhemus,
                                     loc[j].smri_nasion_native) >>)

\* the input files every run needs: digitised fiducials, digitised headshape,
\* scalp mask, each with the statement that reads it
RequiredInputs(j) ==
    { << Fn(j, "polhemus_headshape_file"), "load_headshape" >>,
      << Fn(j, "polhemus_nasion_file"), "load_nasion" >>,
      << Fn(j, "polhemus_rpa_file"), "load_rpa" >>,
      << Fn(j, "polhemus_lpa_file"), "load_lpa" >>,
      << OutskinMeshFile(j), "load_mask" >> }

\* the run of job j has written none of the outputs of step 6
NoStep6Output(j) ==
    /\ Step6Writes(j) = << >>
    /\ \A p \in Range(Step6Outputs(j)) : fs[p] = fs0[p]

C4_CompleteHasAllOutputs ==
    \A j \in Jobs :
        pc[j] \in {"complete", "done"} =>
            /\ outcome[j] = NoError
            /\ Step6Writes(j) = Step6Outputs(j)
            /\ fs[Fn(j, "head_mri_t_file")] = loc[j].head_mri_t
            /\ fs[Fn(j, "head_mri_t_file")].kind = "trans"
            /\ fs[Fn(j, "mrivoxel_mri_t_file")] = loc[j].mrivoxel_mri_t
            /\ fs[Fn(j, "mrivoxel_mri_t_file")].kind = "trans"
            /\ fs[Fn(j, "smri_nasion_file")] = TxtFile(<< loc[j].smri_nasion_polhemus >>)
            /\ fs[Fn(j, "smri_rpa_file")] = TxtFile(<< loc[j].smri_rpa_polhemus >>)
            /\ fs[Fn(j, "smri_lpa_file")] = TxtFile(<< loc[j].smri_lpa_polhemus >>)
            /\ fs[Sfn(j, "bet_inskull_surf_file")].kind = "surf"
            /\ fs[Sfn(j, "bet_outskull_surf_file")].kind = "surf"
            /\ fs[Sfn(j, "bet_outskin_surf_file")].kind = "surf"

C4_Witness ==
    \E j \in Jobs :
        /\ pc[j] = "done"
        /\ \A p \in Range(Step6Outputs(j)) : fs0[p].kind = "absent" /\ fs[p].kind # "absent"

\* C5: at every point of a run, also where it is interrupted or fails, the
\* outputs of step 6 written so far are an initial part of the sequence
\* head-to-native, voxel-to-native, nasion, rpa, lpa, inner skull, outer
\* skull, scalp: exactly those files have been written, the others are as
\* they were before the run.
C5_WrittenOutputsArePrefix ==
    \A j \in Jobs :
        /\ IsPrefix(Step6Writes(j), Step6Outputs(j))
        /\ \A i \in 1..Len(Step6Outputs(j)) :
              IF i <= Len(Step6Writes(j))
              THEN fs[Step6Outputs(j)[i]].kind # "absent"
              ELSE fs[Step6Outputs(j)[i]] = fs0[Step6Outputs(j)[i]]

\* an interrupted run that left the two transforms and the nasion file and
\* nothing else
C5_Witness ==
    \E j \in Jobs :
        /\ pc[j] = "killed"
        /\ Len(Step6Writes(j)) = 3
        /\ fs[Fn(j, "smri_nasion_file")].kind = "txt"
        /\ fs[Fn(j, "smri_rpa_file")].kind = "absent"
        /\ fs[Sfn(j, "bet_outskin_surf_file")].kind = "absent"


IcpStatements == {"icp_call", "icp_start", "icp_iter", "icp_end"}

\* rhino_icp has returned to coreg in job j
IcpReturned(j) == log[j].icp_calls > 0 /\ loc[j].xform_icp # Unset

\* the error before iteration i of a run r of job j
ErrBefore(j, r, i) ==
    IF i = 1 THEN KernelErr(args[j].kernel[r.pert], 0) ELSE r.history[i - 1]

\* the improvement of the error that iteration i of run r made
Improvement(j, r, i) == ErrBefore(j, r, i) - r.history[i]

\* run r went on only while the improvement was not below the tolerance
NoEarlierStop(j, r, upto) == \A i \in 1..upto : Improvement(j, r, i) >= Tol

\* a finished run r stopped where it had to
StoppedInTime(j, r) ==
    /\ r.iters = Len(r.history)
    /\ r.iters >= 1
    /\ r.iters <= MaxIterations
    /\ NoEarlierStop(j, r, r.iters - 1)
    /\ \/ r.stop = "converged" /\ Improvement(j, r, r.iters) < Tol
       \/ /\ r.stop = "max_iterations"
          /\ r.iters = MaxIterations
          /\ Improvement(j, r, r.iters) >= Tol

\* the run in progress, as a run record
CurrentRun(j) ==
    [k |-> icp[j].k, pert |-> icp[j].pert, T |-> icp[j].T, err |-> icp[j].err,
     history |-> icp[j].history, iters |-> icp[j].iter, stop |-> icp[j].stop]

C6_Bounded ==
    \A j \in Jobs :
        /\ icp[j].iter <= MaxIterations
        /\ icp[j].k <= NumInits
        /\ \A i \in 1..Len(icp[j].runs) : StoppedInTime(j, icp[j].runs[i])
        /\ pc[j] = "icp_end" => StoppedInTime(j, CurrentRun(j))
        /\ pc[j] = "icp_iter" =>
              /\ icp[j].iter < MaxIterations
              /\ NoEarlierStop(j, CurrentRun(j), icp[j].iter)

\* C6: every ICP run terminates: it makes at most max_iterations iterations,
\* it stops after the first iteration whose improvement of the error is below
\* the tolerance and never goes on past one, and a job that is inside
\* rhino_icp eventually leaves it.
C6_IcpTerminates ==
    /\ []C6_Bounded
    /\ \A j \in Jobs : (pc[j] \in IcpStatements) ~> (pc[j] \notin IcpStatements)

\* one run stopped early on the tolerance, another at the iteration cap
C6_Witness ==
    \E j \in Jobs :
        /\ IcpReturned(j)
        /\ \E i \in 1..Len(icp[j].runs) :
              /\ icp[j].runs[i].stop = "converged"
              /\ icp[j].runs[i].iters > 1
              /\ icp[j].runs[i].iters < MaxIterations
        /\ \E i \in 1..Len(icp[j].runs) :
              /\ icp[j].runs[i].stop = "max_iterations"
              /\ icp[j].runs[i].iters = MaxIterations

\* C7: an ICP run that reaches max_iterations without meeting the tolerance
\* ends normally: it yields a transform and an error, no exception leaves
\* rhino_icp, and when it is the best run coreg refines with it and persists
\* the result: xform_icp composed with the refined transform gives the initial
\* fit, the persisted head-to-native transform inverts the refined transform
\* and the persisted fiducials are the native ones mapped by it.
C7_CapIsNormalOutcome ==
    \A j \in Jobs :
        /\ pc[j] = "icp_end" /\ icp[j].stop = "max_iterations" =>
              /\ outcome[j] = NoError
              /\ Det3(icp[j].T) = 1
              /\ icp[j].err \in Nat
        /\ (\E i \in 1..Len(icp[j].runs) : icp[j].runs[i].stop = "max_iterations") =>
              ~(pc[j] = "aborted" /\ outcome[j].at \in IcpStatements)
        /\ IcpReturned(j) /\ icp[j].best.stop = "max_iterations" =>
              /\ loc[j].xform_icp = icp[j].best.T
              /\ loc[j].err = icp[j].best.err
              /\ loc[j].e = icp[j].best.history
              /\ loc[j].xform_native2polhemus_refined # Unset =>
                    MatMul(icp[j].best.T, loc[j].xform_native2polhemus_refined)
                        = loc[j].xform_native2polhemus
              /\ pc[j] \in {"complete", "done"} =>
                    /\ MatMul(loc[j].xform_native2polhemus_refined,
                              fs[Fn(j, "head_mri_t_file")].trans) = Eye4
                    /\ fs[Fn(j, "smri_nasion_file")] =
                           TxtFile(<< XformPoint(loc[j].xform_native2polhemus_refined,
                                                 loc[j].smri_nasion_native) >>)

C7_Witness ==
    \E j \in Jobs :
        /\ pc[j] = "done"
        /\ IcpReturned(j)
        /\ icp[j].best.stop = "max_iterations"
        /\ icp[j].best.iters = MaxIterations
        /\ Improvement(j, icp[j].best, MaxIterations) >= Tol
        /\ fs[Fn(j, "head_mri_t_file")].kind = "trans"

\* the number of iterations a run with error profile prof makes
FinalIter(prof) ==
    CHOOSE n \in 1..MaxIterations :
        /\ StopReason(n, KernelErr(prof, n - 1), KernelErr(prof, n), MaxIterations) # ""
        /\ \A m \in 1..(n - 1) :
              StopReason(m, KernelErr(prof, m - 1), KernelErr(prof, m), MaxIterations) = ""

\* the final error of initialisation k of job j, from its own seed alone
FinalErrOf(j, k) ==
    LET prof == args[j].kernel[args[j].seeds[k]]
    IN  KernelErr(prof, FinalIter(prof))

\* the initialisation that must win among the first n: lowest final error,
\* the earliest one among equals
Winner(j, n) ==
    CHOOSE w \in 1..n :
        \A m \in 1..n :
            \/ FinalErrOf(j, w) < FinalErrOf(j, m)
            \/ FinalErrOf(j, w) = FinalErrOf(j, m) /\ w <= m

SameIcpInput(j1, j2) ==
    /\ icp[j1].fixed = icp[j2].fixed
    /\ icp[j1].moving = icp[j2].moving
    /\ args[j1].kernel = args[j2].kernel
    /\ args[j1].seeds = args[j2].seeds

C10_FewerThanThreePointsAborts ==
    \A j \in Jobs :
        /\ log[j].icp_calls > 0 /\ InsufficientData(icp[j].fixed, icp[j].moving) =>
              /\ pc[j] = "aborted"
              /\ outcome[j].kind = "insufficient_data"
              /\ outcome[j].at = "icp_call"
              /\ loc[j].xform_icp = Unset
              /\ icp[j].runs = << >>
              /\ NoStep6Output(j)
        /\ IcpReturned(j) => Len(icp[j].fixed) >= 3 /\ Len(icp[j].moving) >= 3
        /\ loc[j].xform_native2polhemus # Unset =>
              /\ Len(loc[j].polhemus_fid_polhemus.cols) >= 3
              /\ Len(loc[j].smri_fid_native.cols) >= 3
        /\ outcome[j].kind = "insufficient_data" =>
              /\ pc[j] = "aborted"
              /\ outcome[j].at \in {"fit", "icp_call"}
              /\ NoStep6Output(j)

\* ICP was called with a fixed cloud of 2 points and a moving cloud of 5
C10_Witness ==
    \E j \in Jobs :
        /\ log[j].icp_calls = 1
        /\ Len(icp[j].fixed) < 3
        /\ Len(icp[j].moving) >= 3
        /\ pc[j] = "aborted"
        /\ outcome[j].kind = "insufficient_data"

\* the error of the initial estimate of the ICP run of job j
KernelInitialError(j) ==
    IcpError(icp[j].fixed, XformPoints(args[j].guess, icp[j].moving))

\* the clouds are related by the ground truth and, at the initial estimate,
\* the nearest neighbour of every moving point is its true counterpart
ExactCorrespondence(j) ==
    /\ args[j].related
    /\ Correspondences(icp[j].fixed, XformPoints(args[j].guess, icp[j].moving))
           = XformPoints(args[j].truth, icp[j].moving)

NonIncreasing(h) == \A i \in 1..(Len(h) - 1) : h[i + 1] <= h[i]

Collinear(P) ==
    LET u == Sub(P[2], P[1])
        v == Sub(P[3], P[1])
    IN  /\ u[2] * v[3] - u[3] * v[2] = 0
        /\ u[3] * v[1] - u[1] * v[3] = 0
        /\ u[1] * v[2] - u[2] * v[1] = 0

\* rotation plus translation: an orthonormal block of determinant +1
IsRigid(T) == WithTranslation(T, 0, 0, 0) \in Rotations

\* C12: the rigid solver given 3 non-collinear points P and their image under
\* a rigid transform T returns T; and whatever 3 points and image it is
\* given, the rotation it returns has determinant +1, never a reflection.
C12_SolverRecoversRigid ==
    \A j \in Jobs :
        loc[j].xform_native2polhemus # Unset /\ pc[j] = "utils_done" =>
            /\ Det3(loc[j].xform_native2polhemus) = 1
            /\ IsRigid(loc[j].xform_native2polhemus)
            /\ IsRigid(args[j].xform) /\ ~Collinear(args[j].points) =>
                  loc[j].xform_native2polhemus = args[j].xform

\* the solver recovered a rotation with translation from the three fiducials
C12_Witness ==
    \E j \in Jobs :
        /\ pc[j] = "utils_done"
        /\ args[j].points = MniFids
        /\ IsRigid(args[j].xform)
        /\ WithTranslation(args[j].xform, 0, 0, 0) # Eye4
        /\ args[j].xform[1][4] # 0
        /\ loc[j].xform_native2polhemus = args[j].xform

\* the inversion of the transform of job j has been done
Inverted(j) ==
    \/ pc[j] \in {"solve", "utils_done"}
    \/ pc[j] = "aborted" /\ outcome[j].at = "solve"

\* C13: for a non-singular transform T and a point cloud P, applying T and
\* then the inverse of T gives back P: the same number of points, in the same
\* order, each at its place; the image has the number of points of P; the
\* inverse composed with T on either side is the identity.  A singular T has
\* no inverse: the inversion fails.
C13_InverseRoundTrip ==
    \A j \in Jobs :
        /\ Inverted(j) =>
              /\ ~Singular(args[j].xform)
              /\ Len(loc[j].smri_headshape_polhemus) = Len(args[j].points)
              /\ loc[j].smri_headshape_native = args[j].points
              /\ MatMul(loc[j].head_mri_t, args[j].xform) = Eye4
              /\ MatMul(args[j].xform, loc[j].head_mri_t) = Eye4
        /\ pc[j] \in {"apply", "invert"} \/ Inverted(j) =>
              (Singular(args[j].xform) =>
                  /\ ~Inverted(j)
                  /\ pc[j] = "aborted" => outcome[j].kind = "LinAlgError")

\* a cloud of four points went through a rotation with translation and back
C13_Witness ==
    \E j \in Jobs :
        /\ Inverted(j)
        /\ Len(args[j].points) = 4
        /\ WithTranslation(args[j].xform, 0, 0, 0) # Eye4
        /\ args[j].xform[2][4] # 0
        /\ loc[j].smri_headshape_polhemus # args[j].points
        /\ loc[j].smri_headshape_native = args[j].points

\* the files the run of job j has written
WrittenBy(j) == Range(log[j].writes)

\* the files under subjects_dir/subject/rhino/coreg and the surfaces of the
\* subject of job j
OwnDirectories(j) ==
    { p \in Paths : p[1] = args[j].subject /\ p[2] \in {"coreg", "surfaces"} }

\* C14: two coreg runs for different subjects, interleaved in any way, never
\* write the same file: a run writes only under the coreg directory and the
\* surfaces of its own subject, the sets of files written by the two runs
\* are disjoint, a file of a subject changes only by the run of that subject,
\* and what a run has persisted stays as that run wrote it whatever the other
\* run does, also when the other run aborts.
C14_SubjectsWriteDisjointFiles ==
    \A j1, j2 \in Jobs :
        /\ WrittenBy(j1) \subseteq OwnDirectories(j1)
        /\ args[j1].subject # args[j2].subject =>
              /\ WrittenBy(j1) \cap WrittenBy(j2) = {}
              /\ \A p \in OwnDirectories(j1) : p \notin WrittenBy(j1) => fs[p] = fs0[p]
        /\ Fn(j1, "fif_file") \in WrittenBy(j1) => fs[Fn(j1, "fif_file")] = loc[j1].raw
        /\ Fn(j1, "head_mri_t_file") \in WrittenBy(j1) =>
              fs[Fn(j1, "head_mri_t_file")] = loc[j1].head_mri_t
        /\ Fn(j1, "smri_lpa_file") \in WrittenBy(j1) =>
              fs[Fn(j1, "smri_lpa_file")] = TxtFile(<< loc[j1].smri_lpa_polhemus >>)

\* one run completed with all its outputs while the run of the other subject
\* aborted in the middle of step 6
C14_Witness ==
    \E j1, j2 \in Jobs :
        /\ args[j1].subject # args[j2].subject
        /\ pc[j1] = "done"
        /\ Step6Writes(j1) = Step6Outputs(j1)
        /\ pc[j2] = "aborted"
        /\ outcome[j2].at = "mesh_outskull"
        /\ Len(Step6Writes(j2)) = 6
        /\ fs[Fn(j1, "head_mri_t_file")] = loc[j1].head_mri_t

\* the point a digitised fiducial file of the subject of job j held at start
DigitisedFiducial(j, key) == fs0[Fn(j, key)].arr[1]

\* the MNI fiducial mapped into the native space of the subject of job j
StructuralFiducial(j, mni_point) ==
    XformPoint(fs0[Sfn(j, "mni_mri_t_file")].trans, mni_point)

\* C15: the initial rigid fit of coreg is computed from exactly three
\* order-matched pairs: the digitised fiducials are assembled as nasion, rpa,
\* lpa from the three polhemus files, the structural fiducials as nasion,
\* rpa, lpa from the MNI coordinates mapped to native space, and the
\* transform of the fit maps native structural space to head (polhemus)
\* space: it takes each structural fiducial to the digitised fiducial of the
\* same name.
C15_FitFromOrderedFiducials ==
    \A j \in Jobs :
        loc[j].xform_native2polhemus # Unset /\ pc[j] \notin {"solve", "utils_done"} =>
            /\ loc[j].polhemus_fid_polhemus.cols =
                   << DigitisedFiducial(j, "polhemus_nasion_file"),
                      DigitisedFiducial(j, "polhemus_rpa_file"),
                      DigitisedFiducial(j, "polhemus_lpa_file") >>
            /\ loc[j].smri_fid_native.cols =
                   << StructuralFiducial(j, mni_nasion_mni),
                      StructuralFiducial(j, mni_rpa_mni),
                      StructuralFiducial(j, mni_lpa_mni) >>
            /\ pc[j] = "project" =>
                   loc[j].xform_native2polhemus =
                       rigid_transform_3D(loc[j].polhemus_fid_polhemus.cols,
                                          loc[j].smri_fid_native.cols)
            /\ XformPoints(loc[j].xform_native2polhemus, loc[j].smri_fid_native.cols)
                   = loc[j].polhemus_fid_polhemus.cols

\* a fit with a rotation, from fiducials that differ in the two spaces
C15_Witness ==
    \E j \in Jobs :
        /\ loc[j].xform_native2polhemus # Unset
        /\ pc[j] = "project"
        /\ WithTranslation(loc[j].xform_native2polhemus, 0, 0, 0) # Eye4
        /\ MatInv(loc[j].xform_native2polhemus) # loc[j].xform_native2polhemus
        /\ XformPoint(loc[j].xform_native2polhemus, StructuralFiducial(j, mni_rpa_mni))
               = DigitisedFiducial(j, "polhemus_rpa_file")
        /\ StructuralFiducial(j, mni_rpa_mni) # DigitisedFiducial(j, "polhemus_rpa_file")

\* the structural scalp cloud of job j projected into head frame by the
\* initial fit: mask voxels to native by the sform, native to head by the fit
ScalpInHeadFrame(j) ==
    XformPoints(loc[j].xform_native2polhemus,
                XformPoints(fs0[OutskinMeshFile(j)].sform, fs0[OutskinMeshFile(j)].vox))

\* the digitised headshape points of job j followed by the three digitised
\* fiducials nasion, rpa, lpa
HeadshapeWithFiducials(j) ==
    fs0[Fn(j, "polhemus_headshape_file")].arr
    \o << DigitisedFiducial(j, "polhemus_nasion_file"),
          DigitisedFiducial(j, "polhemus_rpa_file"),
          DigitisedFiducial(j, "polhemus_lpa_file") >>

\* the statements of coreg after the if / else of the refinement
AfterIcpBranch ==
    { Statements[i] : i \in (IndexOf("icp_branch") + 1)..Len(Statements) }

\* C16: with use_headshape enabled coreg refines with ICP: it calls rhino_icp
\* once, with the structural scalp cloud projected into head frame by the
\* initial fit as the fixed cloud and the digitised headshape points followed
\* by the three digitised fiducials as the moving cloud, and no ICP run makes
\* more than 30 iterations: a run that stops on the limit has made 30.
C16_IcpCallArguments ==
    \A j \in Jobs :
        /\ log[j].icp_calls > 0 =>
              /\ args[j].use_headshape
              /\ log[j].icp_calls = 1
              /\ icp[j].fixed = ScalpInHeadFrame(j)
              /\ icp[j].moving = HeadshapeWithFiducials(j)
        /\ args[j].use_headshape /\ pc[j] \in AfterIcpBranch => log[j].icp_calls = 1
        /\ icp[j].iter <= 30
        /\ \A i \in 1..Len(icp[j].runs) :
              /\ icp[j].runs[i].iters <= 30
              /\ icp[j].runs[i].stop = "max_iterations" => icp[j].runs[i].iters = 30

\* ICP was called with a rotated scalp cloud and five moving points, and a
\* run stopped on the iteration limit
C16_Witness ==
    \E j \in Jobs :
        /\ IcpReturned(j)
        /\ icp[j].fixed = ScalpInHeadFrame(j)
        /\ icp[j].fixed # fs0[OutskinMeshFile(j)].vox
        /\ Len(icp[j].moving) = 5
        /\ \E i \in 1..Len(icp[j].runs) : icp[j].runs[i].iters = 30

\* the run of job j has ended
Finished(j) == pc[j] \in {"done", "aborted"}

\* the subjects of the two jobs have the same files at start
SameInputs(j1, j2) ==
    \A p \in Paths :
        p[1] = args[j1].subject => fs0[p] = fs0[<< args[j2].subject, p[2], p[3] >>]

\* the two calls differ in use_nose only
DifferInUseNoseOnly(j1, j2) ==
    /\ args[j1].use_nose # args[j2].use_nose
    /\ args[j1].use_headshape = args[j2].use_headshape
    /\ args[j1].use_dev_ctf_t = args[j2].use_dev_ctf_t
    /\ args[j1].fif_file[3] = args[j2].fif_file[3]
    /\ args[j1].kernel = args[j2].kernel
    /\ args[j1].seeds = args[j2].seeds

\* two files of different subjects hold the same: a surface names the mask
\* it was made from by its key
SameContent(c1, c2) ==
    IF c1.kind = "surf" /\ c2.kind = "surf"
    THEN c1.vtk = c2.vtk /\ c1.xform = c2.xform /\ c1.nii[3] = c2.nii[3]
    ELSE c1 = c2

\* C17: use_nose is only relevant when use_headshape is true: two coreg runs
\* with use_headshape = False on the same inputs that differ only in use_nose
\* end the same way (both complete, or both fail with the same error) and
\* leave the same in every persisted output.
C17_UseNoseIrrelevantWithoutHeadshape ==
    \A j1, j2 \in Jobs :
        /\ ~args[j1].use_headshape
        /\ DifferInUseNoseOnly(j1, j2)
        /\ SameInputs(j1, j2)
        /\ Finished(j1) /\ Finished(j2)
        => /\ pc[j1] = pc[j2]
           /\ outcome[j1].kind = outcome[j2].kind
           /\ SameContent(fs[Fn(j1, "fif_file")], fs[Fn(j2, "fif_file")])
           /\ \A i \in 1..Len(Step6Outputs(j1)) :
                 SameContent(fs[Step6Outputs(j1)[i]], fs[Step6Outputs(j2)[i]])

\* C18: the copy of the fif file that coreg saves has dev_head_t equal to
\* dev_ctf_t exactly when use_dev_ctf_t is true and dev_ctf_t exists (is not
\* None) in the input; when use_dev_ctf_t is false or dev_ctf_t does not
\* exist, dev_head_t of the copy is that of the input.  dev_ctf_t itself is
\* copied as it is and the caller's file is not changed.
C18_DevHeadTFromDevCtfT ==
    \A j \in Jobs :
        Fn(j, "fif_file") \in Range(log[j].writes) =>
            LET given == fs0[args[j].fif_file]
                copy == fs[Fn(j, "fif_file")]
            IN  /\ copy.kind = "fif"
                /\ copy.dev_head_t =
                       IF args[j].use_dev_ctf_t /\ given.dev_ctf_t # None
                       THEN given.dev_ctf_t
                       ELSE given.dev_head_t
                /\ copy.dev_ctf_t = given.dev_ctf_t
                /\ fs[args[j].fif_file] = given

\* a recording with dev_ctf_t was copied with dev_head_t replaced
C18_Witness ==
    \E j \in Jobs :
        /\ Fn(j, "fif_file") \in Range(log[j].writes)
        /\ args[j].use_dev_ctf_t
        /\ fs0[args[j].fif_file].dev_ctf_t # None
        /\ fs[Fn(j, "fif_file")].dev_head_t = fs0[args[j].fif_file].dev_ctf_t
        /\ fs[Fn(j, "fif_file")].dev_head_t # fs0[args[j].fif_file].dev_head_t

\* the run of job j is the latest run of its subject: the first call is that
\* of job a, the second, once it has started, that of job b
LatestRun(j) == IF pc["b"] = "idle" THEN j = "a" ELSE j = "b"

\* every output file of the subject of job j holds what the run of j computed
HoldsResultOf(j) ==
    /\ fs[Fn(j, "fif_file")] = loc[j].raw
    /\ fs[Fn(j, "head_mri_t_file")] =
           TransFile("head", "mri", MatInv(loc[j].xform_native2polhemus_refined))
    /\ fs[Fn(j, "mrivoxel_mri_t_file")] =
           TransFile("mri_voxel", "mri", loc[j].xform_nativeindex2native)
    /\ fs[Fn(j, "smri_nasion_file")] = TxtFile(<< loc[j].smri_nasion_polhemus >>)
    /\ fs[Fn(j, "smri_rpa_file")] = TxtFile(<< loc[j].smri_rpa_polhemus >>)
    /\ fs[Fn(j, "smri_lpa_file")] = TxtFile(<< loc[j].smri_lpa_polhemus >>)
    /\ \A k \in {"bet_inskull_surf_file", "bet_outskull_surf_file", "bet_outskin_surf_file"} :
           /\ fs[Sfn(j, k)].kind = "surf"
           /\ fs[Sfn(j, k)].xform = loc[j].xform_nativeindex2native

\* a run that started after the other ended, on complete inputs, did not fail,
\* and once complete every output holds its result
RerunOverwrites ==
    \A j \in Jobs :
        /\ pc[j] # "aborted"
        /\ pc[j] \in {"complete", "done"} /\ LatestRun(j) => HoldsResultOf(j)

\* a step that changes a file is a step of a run in progress
ModifiedOnlyByRun ==
    fs' # fs => \E j \in Jobs : Running(j) /\ pc'[j] # pc[j]

\* C19: re-running coreg for a subject that already has coregistration
\* outputs (of a completed or of an interrupted run) succeeds and overwrites
\* them: when the second run completes, every output file holds the second
\* run's result; and the files change only by the steps of a run, never
\* outside one.
C19_RerunOverwrites == []RerunOverwrites /\ [][ModifiedOnlyByRun]_vars

\* the second run completed on top of the outputs of a completed first run
\* and replaced fiducials that differ from its own
C19_Witness ==
    /\ pc["a"] = "done" /\ pc["b"] = "done"
    /\ HoldsResultOf("b")
    /\ loc["a"].smri_nasion_polhemus # loc["b"].smri_nasion_polhemus
    /\ loc["a"].xform_nativeindex2native # loc["b"].xform_nativeindex2native
    /\ fs0[Fn("b", "smri_nasion_file")].kind = "absent"

\* the point p of native space taken to head space by the initial fit and
\* then by the inverse of the ICP transform, one after the other
FitThenInverseIcp(j, p) ==
    XformPoint(MatInv(loc[j].xform_icp), XformPoint(loc[j].xform_native2polhemus, p))

\* C20: the refined native-to-head transform is the inverse of the ICP
\* transform composed after the initial fit: applied to a point it gives what
\* the initial fit and then the inverse ICP transform give one after the
\* other.  The head-to-native transform persisted is the inverse of the
\* refined transform, and the persisted fiducial files hold the structural
\* (MNI-derived) fiducials mapped by the refined transform.
C20_RefinedIsInverseIcpAfterFit ==
    \A j \in Jobs :
        /\ loc[j].xform_native2polhemus_refined # Unset =>
              /\ loc[j].xform_native2polhemus_refined =
                     MatMul(MatInv(loc[j].xform_icp), loc[j].xform_native2polhemus)
              /\ \A i \in 1..Len(loc[j].smri_headshape_native) :
                     /\ XformPoint(loc[j].xform_native2polhemus_refined,
                                   loc[j].smri_headshape_native[i])
                            = FitThenInverseIcp(j, loc[j].smri_headshape_native[i])
                     /\ loc[j].smri_headshape_polhemus[i]
                            = FitThenInverseIcp(j, loc[j].smri_headshape_native[i])
        /\ Fn(j, "head_mri_t_file") \in Range(log[j].writes) =>
              /\ fs[Fn(j, "head_mri_t_file")] =
                     TransFile("head", "mri", MatInv(loc[j].xform_native2polhemus_refined))
              /\ MatMul(fs[Fn(j, "head_mri_t_file")].trans,
                        loc[j].xform_native2polhemus_refined) = Eye4
              /\ XformPoints(fs[Fn(j, "head_mri_t_file")].trans,
                             loc[j].smri_headshape_polhemus) = loc[j].smri_headshape_native
        /\ Fn(j, "smri_nasion_file") \in Range(log[j].writes) =>
              fs[Fn(j, "smri_nasion_file")] =
                  TxtFile(<< FitThenInverseIcp(j, StructuralFiducial(j, mni_nasion_mni)) >>)
        /\ Fn(j, "smri_rpa_file") \in Range(log[j].writes) =>
              fs[Fn(j, "smri_rpa_file")] =
                  TxtFile(<< FitThenInverseIcp(j, StructuralFiducial(j, mni_rpa_mni)) >>)
        /\ Fn(j, "smri_lpa_file") \in Range(log[j].writes) =>
              fs[Fn(j, "smri_lpa_file")] =
                  TxtFile(<< FitThenInverseIcp(j, StructuralFiducial(j, mni_lpa_mni)) >>)

\* a completed run whose ICP transform and initial fit do not commute
C20_Witness ==
    \E j \in Jobs :
        /\ pc[j] = "done"
        /\ IcpReturned(j)
        /\ loc[j].xform_native2polhemus_refined # loc[j].xform_native2polhemus
        /\ MatMul(loc[j].xform_native2polhemus, MatInv(loc[j].xform_icp))
               # loc[j].xform_native2polhemus_refined
        /\ fs[Fn(j, "smri_lpa_file")] =
               TxtFile(<< FitThenInverseIcp(j, StructuralFiducial(j, mni_lpa_mni)) >>)
        /\ fs[Fn(j, "head_mri_t_file")].trans # loc[j].xform_native2polhemus_refined

\* the fif file of job j ends in neither raw.fif nor epochs.fif
InvalidFifSuffix(j) == args[j].fif_file[3] \notin {"x-raw.fif", "x-epochs.fif"}

\* the outputs of a run: the fif copy and the outputs of step 6
RunOutputs(j) == {Fn(j, "fif_file")} \cup Range(Step6Outputs(j))

\* the digitised points and the scalp mask are loaded
LoadsDone(j) ==
    /\ loc[j].polhemus_headshape # Unset
    /\ loc[j].polhemus_nasion # Unset
    /\ loc[j].polhemus_rpa # Unset
    /\ loc[j].polhemus_lpa # Unset
    /\ loc[j].smri_headshape_nativeindex # Unset

\* C21: a run whose fif_file ends in neither raw.fif nor epochs.fif never gets
\* past the statement that reads the fif file: once the digitised points and
\* the scalp mask are loaded it aborts there with ValueError (whether the fif
\* file exists or not), and at no time has it written anything: the fif copy,
\* the transforms, the fiducials and the meshes do not exist.
C21_InvalidFifRaisesBeforeWrites ==
    \A j \in Jobs :
        InvalidFifSuffix(j) /\ pc[j] # "idle" =>
            /\ log[j].writes = << >>
            /\ \A p \in RunOutputs(j) : ~Exists(p)
            /\ fs = fs0
            /\ pc[j] \in {"start", "load_headshape", "load_nasion", "load_rpa",
                          "load_lpa", "load_mask", "read_fif", "aborted", "killed"}
            /\ pc[j] = "read_fif" => LoadsDone(j)
            /\ pc[j] = "aborted" /\ LoadsDone(j) =>
                   /\ outcome[j].kind = "ValueError"
                   /\ outcome[j].at = "read_fif"
                   /\ outcome[j].path = args[j].fif_file
            /\ pc[j] = "aborted" /\ ~LoadsDone(j) =>
                   /\ outcome[j].kind = "missing_input"
                   /\ \E r \in RequiredInputs(j) :
                          outcome[j].at = r[2] /\ outcome[j].path = r[1]

\* a run on an existing file with a wrong suffix stopped with ValueError after
\* the loads
C21_Witness ==
    \E j \in Jobs :
        /\ InvalidFifSuffix(j)
        /\ Exists(args[j].fif_file)
        /\ pc[j] = "aborted"
        /\ outcome[j].kind = "ValueError"
        /\ LoadsDone(j)
        /\ log[j].writes = << >>

\* the number of points in the digitised headshape file of job j
HeadshapeCount(j) == Len(fs0[Fn(j, "polhemus_headshape_file")].arr)

\* the run of job j has executed the if / else of the refinement with
\* use_headshape enabled
TookIcpBranch(j) == args[j].use_headshape /\ 5 \in Range(log[j].steps)

\* the three digitised fiducials are among the points of cloud c
HasFiducials(j, c) ==
    \A k \in {"polhemus_nasion_file", "polhemus_rpa_file", "polhemus_lpa_file"} :
        \E i \in 1..Len(c) : c[i] = DigitisedFiducial(j, k)

\* C22 as stated: for any headshape file, an empty one included, a run that
\* refines with ICP builds a moving cloud of the headshape points and the
\* three digitised fiducials, of at least 3 points, and passes it to ICP.
C22_MovingCloudForAnyHeadshape ==
    \A j \in Jobs :
        TookIcpBranch(j) =>
            /\ loc[j].polhemus_headshape_4icp # Unset
            /\ Len(loc[j].polhemus_headshape_4icp.cols) >= 3
            /\ HasFiducials(j, loc[j].polhemus_headshape_4icp.cols)
            /\ pc[j] \notin {"icp_call", "aborted", "killed"} =>
                   icp[j].moving = loc[j].polhemus_headshape_4icp.cols

\* C22 (amended): a moving cloud that coreg passes to ICP holds the headshape
\* points and the three digitised fiducials, so it has the headshape's points
\* and 3 more; coreg passes one only for a headshape file of two or more
\* points: with an empty or a one-point headshape file the array loaded is
\* 1-d, the concatenation with the fiducials raises ValueError and ICP is not
\* called.
C22_MovingCloudHasFiducials ==
    \A j \in Jobs :
        /\ icp[j].moving # Unset =>
              /\ HeadshapeCount(j) >= 2
              /\ Len(icp[j].moving) = HeadshapeCount(j) + 3
              /\ HasFiducials(j, icp[j].moving)
              /\ \A i \in 1..HeadshapeCount(j) :
                     icp[j].moving[i] = fs0[Fn(j, "polhemus_headshape_file")].arr[i]
        /\ TookIcpBranch(j) /\ HeadshapeCount(j) >= 2 =>
              /\ loc[j].polhemus_headshape_4icp # Unset
              /\ pc[j] \notin {"icp_call", "aborted", "killed"} =>
                     icp[j].moving = loc[j].polhemus_headshape_4icp.cols
        /\ TookIcpBranch(j) /\ HeadshapeCount(j) < 2 =>
              /\ pc[j] = "aborted"
              /\ outcome[j].kind = "ValueError"
              /\ outcome[j].at = "icp_branch"
              /\ log[j].icp_calls = 0
              /\ icp[j].moving = Unset
              /\ loc[j].polhemus_headshape_4icp = Unset

\* ICP ran on a moving cloud of two headshape points and the three fiducials
C22_Witness ==
    \E j \in Jobs :
        /\ IcpReturned(j)
        /\ HeadshapeCount(j) = 2
        /\ Len(icp[j].moving) = 5
        /\ HasFiducials(j, icp[j].moving)

\* the voxel-to-physical affine of the scalp mask the registration of job j
\* reads
MaskSform(j) == fs0[OutskinMeshFile(j)].sform

\* the surfaces regenerated in step 6
SurfOutputs(j) ==
    { Sfn(j, "bet_inskull_surf_file"), Sfn(j, "bet_outskull_surf_file"),
      Sfn(j, "bet_outskin_surf_file") }

\* C23: the voxel-to-native transform of a run is the voxel-to-physical affine
\* of the scalp mask it reads, as it is in the file: this holds of the local
\* value from the projection on, of the transform file persisted (from
\* mri_voxel to mri) and of the transform each regenerated surface was built
\* with, whatever the fiducial fit, use_headshape and the ICP result are.
C23_VoxelTransformIsMaskSform ==
    \A j \in Jobs :
        /\ loc[j].xform_nativeindex2native # Unset =>
               loc[j].xform_nativeindex2native = MaskSform(j)
        /\ loc[j].mrivoxel_mri_t # Unset =>
               loc[j].mrivoxel_mri_t = TransFile("mri_voxel", "mri", MaskSform(j))
        /\ Fn(j, "mrivoxel_mri_t_file") \in WrittenBy(j) =>
               fs[Fn(j, "mrivoxel_mri_t_file")] =
                   TransFile("mri_voxel", "mri", MaskSform(j))
        /\ \A p \in SurfOutputs(j) :
               p \in WrittenBy(j) => fs[p].xform = MaskSform(j)

\* a completed run whose ICP changed the fit and whose fit is not the
\* identity persisted the rotated affine of its mask
C23_Witness ==
    \E j \in Jobs :
        /\ pc[j] = "done"
        /\ IcpReturned(j)
        /\ loc[j].xform_native2polhemus_refined # loc[j].xform_native2polhemus
        /\ loc[j].xform_native2polhemus # Eye4
        /\ MaskSform(j) = Sform2
        /\ fs[Fn(j, "mrivoxel_mri_t_file")].trans = Sform2
        /\ fs[Sfn(j, "bet_outskin_surf_file")].xform = Sform2

\* the files a run of job j reads: the input files of its subject and the
\* caller's fif file
InputPaths(j) ==
    { << args[j].subject, k[1], k[2] >> : k \in InputKeys \ { <<"caller", "fif">> } }
    \cup { args[j].fif_file }

\* C24: at every point of every run, completed, aborted or interrupted, each
\* input (digitised fiducials and headshape, the masks, the MNI-to-native
\* transform, the vtk meshes, the caller's fif file) holds what it held at the
\* start and is not among the files the run wrote; the only recording the run
\* writes is the copy in the subject's coreg directory, and it is the data
\* read from the caller's file with at most dev_head_t changed.
C24_InputsNeverWritten ==
    \A j \in Jobs :
        /\ \A p \in InputPaths(j) : fs[p] = fs0[p] /\ p \notin WrittenBy(j)
        /\ \A p \in Paths :
               p[2] = "caller" => fs[p] = fs0[p] /\ p \notin WrittenBy(j)
        /\ \A p \in WrittenBy(j) :
               fs[p].kind = "fif" =>
                   /\ p = get_coreg_filenames(args[j].subject, "fif_file")
                   /\ fs[p].dev_ctf_t = fs0[args[j].fif_file].dev_ctf_t
                   /\ fs[p].dev_head_t \in
                          { fs0[args[j].fif_file].dev_head_t,
                            fs0[args[j].fif_file].dev_ctf_t }

\* a completed run saved a recording that differs from the caller's file,
\* which is as it was
C24_Witness ==
    \E j \in Jobs :
        /\ pc[j] = "done"
        /\ Fn(j, "fif_file") \in WrittenBy(j)
        /\ fs[Fn(j, "fif_file")] # fs[args[j].fif_file]
        /\ fs[args[j].fif_file] = fs0[args[j].fif_file]
        /\ Exists(args[j].fif_file)

\* C25: the scalp surface regenerated in step 6 is built from the scalp mask
\* without nose, with use_nose set or not, so with use_nose set the mask the
\* registration read and the mask of the regenerated scalp surface are
\* different files; the inner skull and outer skull surfaces are built from
\* their own masks, and every surface regenerated is built with the one
\* voxel-to-native transform of the run.
C25_ScalpMeshFromMaskWithoutNose ==
    \A j \in Jobs :
        /\ Sfn(j, "bet_outskin_surf_file") \in WrittenBy(j) =>
              /\ fs[Sfn(j, "bet_outskin_surf_file")].nii = Sfn(j, "bet_outskin_mesh_file")
              /\ fs[Sfn(j, "bet_outskin_surf_file")].vtk = "outskin"
              /\ args[j].use_nose =>
                     /\ loc[j].outskin_mesh_file = Sfn(j, "bet_outskin_plus_nose_mesh_file")
                     /\ loc[j].outskin_mesh_file # fs[Sfn(j, "bet_outskin_surf_file")].nii
              /\ ~args[j].use_nose =>
                     loc[j].outskin_mesh_file = fs[Sfn(j, "bet_outskin_surf_file")].nii
        /\ Sfn(j, "bet_inskull_surf_file") \in WrittenBy(j) =>
              fs[Sfn(j, "bet_inskull_surf_file")].nii = Sfn(j, "bet_inskull_mesh_file")
        /\ Sfn(j, "bet_outskull_surf_file") \in WrittenBy(j) =>
              fs[Sfn(j, "bet_outskull_surf_file")].nii = Sfn(j, "bet_outskull_mesh_file")
        /\ \A p, q \in SurfOutputs(j) :
              p \in WrittenBy(j) /\ q \in WrittenBy(j) =>
                  /\ fs[p].xform = fs[q].xform
                  /\ fs[p].xform = loc[j].mrivoxel_mri_t.trans

\* a completed run with use_nose set: the scalp surface is built from the
\* mask without nose with the affine of the mask with nose, which differs
\* from its own
C25_Witness ==
    \E j \in Jobs :
        /\ pc[j] = "done"
        /\ args[j].use_nose
        /\ fs[Sfn(j, "bet_outskin_surf_file")].nii # loc[j].outskin_mesh_file
        /\ fs[Sfn(j, "bet_outskin_surf_file")].xform = Sform2
        /\ fs[fs[Sfn(j, "bet_outskin_surf_file")].nii].sform = Sform1
        /\ fs[Sfn(j, "bet_inskull_surf_file")].xform = Sform2
        /\ fs[Sfn(j, "bet_outskull_surf_file")].xform = Sform2

=============================================================================
